---- MODULE Spec2Model ----
(***************************************************************************)
(* The Customer Engagement Priority Engine of generate_customer_alerts.py: *)
(* load_customers (row ingestion into CustomerStats), build_alert_rows     *)
(* (thresholds, uplift, timing boost, lifecycle value, priority score,     *)
(* segmentation, cooldown / eligibility filters) and the final sort.       *)
(*                                                                         *)
(* Numbers.  Money is in whole currency units.  A Python float that is a   *)
(* factor, a rate or a score is kept in fixed point: a name ending in _m   *)
(* is in thousandths, _c in hundredths, _t in tenths.  Divisions are floor *)
(* divisions at that scale, so the score before weighting can differ from  *)
(* the float by a few hundredths; the boosts, the penalties, the clamp and *)
(* the final rounding are exact.  A return rate and a personal cycle are   *)
(* kept as exact fractions [n, d], so that every comparison of the source  *)
(* against a literal (0.2, 0.49, 30 ...) is decided exactly.               *)
(*                                                                         *)
(* Text.  The source tests cells for the substrings "cancel" (qu xiao),    *)
(* "refund" (tui) and "exchange" (huan); cell texts are drawn from a small *)
(* vocabulary and the substring tests are tables over it.  Output labels   *)
(* are written in ASCII (the list "super_vip" is the source's Super-VIP    *)
(* list, "cooldown" its cooldown list, and so on).                         *)
(***************************************************************************)
EXTENDS Integers, Sequences, FiniteSets, TLC

VARIABLES
    pc,                 \* "contacts" | "load" | "build" | "done" | "fatal" | "probe"
    today,              \* the explicit reference date (a day number)
    columns,            \* the column keys found in the header row
    config_model,       \* ConfigModel
    args,               \* the remaining arguments of build_alert_rows
    contact_rows,       \* the data rows of the contact-log sheet, if one is read
    contact_log,        \* phone -> last contact date
    contact_info,       \* phone -> [status]
    ws,                 \* the data rows of the worksheet read so far
    customers,          \* key -> CustomerStats
    key_order,          \* the insertion order of the customers dict
    idx,                \* position of the build loop in key_order
    overview_rows,
    action_rows,
    meta_map,
    snoozed_total,
    cooldown_customers,
    locals,             \* the loop body's local variables of the last scored customer
    run,                \* 1 in the first run, 2 in the repeated run
    first_out,          \* the outputs of the first run, kept for comparison
    probe               \* inputs and result of a directly applied function

vars == <<pc, today, columns, config_model, args, contact_rows, contact_log, contact_info, ws,
          customers, key_order, idx, overview_rows, action_rows, meta_map,
          snoozed_total, cooldown_customers, locals, run, first_out, probe>>

(***************************************************************************)
(* Basics                                                                  *)
(***************************************************************************)
\* Python's None for a date or a day count
NoDate == -1
\* Python's None for a text cell
NoText == "<None>"

Min(a, b) == IF a <= b THEN a ELSE b
Max(a, b) == IF a >= b THEN a ELSE b
Abs(a) == IF a < 0 THEN 0 - a ELSE a
\* math.ceil(n / d) for d > 0
CeilDiv(n, d) == 0 - ((0 - n) \div d)
\* round(x, 1 decimal fewer): to the nearest multiple of ten, ties to even
RoundDiv10(x) ==
    LET q == x \div 10
        r == x % 10
    IN  IF r < 5 THEN q
        ELSE IF r > 5 THEN q + 1
        ELSE IF q % 2 = 0 THEN q ELSE q + 1

RECURSIVE SumSeq(_)
SumSeq(s) == IF s = <<>> THEN 0 ELSE Head(s) + SumSeq(Tail(s))

SeqToSet(s) == {s[i] : i \in 1..Len(s)}

(***************************************************************************)
(* Cells of a worksheet row                                                *)
(***************************************************************************)
\* A numeric cell: None, a number, a blank string, or a string with the
\* numeric tokens the regular expression of to_float finds in it.
Blank == [k |-> "none", toks |-> <<>>]
Num(n) == [k |-> "num", toks |-> <<n>>]
Str(toks) == [k |-> "str", toks |-> toks]
EmptyStr == [k |-> "blank", toks |-> <<>>]

to_float(value) ==
    IF value.k = "none" THEN 0
    ELSE IF value.k = "num" THEN value.toks[1]
    ELSE IF value.k = "blank" THEN 0
    ELSE IF value.toks = <<>> THEN 0
    ELSE value.toks[1]

\* A date cell: None, a date, or a string no format matches
NoCell == [k |-> "none", d |-> NoDate]
DateCell(d) == [k |-> "date", d |-> d]
JunkDate == [k |-> "str", d |-> NoDate]

parse_excel_date(raw) ==
    IF raw.k = "date" THEN raw.d ELSE NoDate

\* A phone cell keeps its digits only; a cell without digits is no phone
deduplicate_phone(raw) ==
    IF raw = NoText THEN NoText
    ELSE IF raw = "138-0001" THEN "1380001"
    ELSE IF raw = "1380001" THEN "1380001"
    ELSE IF raw = "1390002" THEN "1390002"
    ELSE NoText

\* str.strip() over the vocabulary of text cells
Strip(s) ==
    IF s = " Li " THEN "Li"
    ELSE IF s = " " THEN ""
    ELSE s

Truthy(s) == s # NoText /\ s # ""

\* a text column's cell that holds a number (openpyxl hands it over as an int):
\* str() accepts it, .strip() raises AttributeError
NumberCell == "<int>"

IsNumberCell(s) == s = NumberCell

\* "cancel" in text, "refund" in text, "exchange" in text
HasCancel(text) == text \in {"cancelled", "cancel_refund"}
HasRefund(text) == text \in {"refunded", "refund_exchange", "cancel_refund"}
HasExchange(text) == text \in {"exchange", "refund_exchange"}

try_get(row, key) == IF key \in columns THEN row[key] ELSE
    IF key \in {"gross", "net", "cost", "refund_amount"} THEN Blank
    ELSE IF key = "pay_date" THEN NoCell
    ELSE NoText

(***************************************************************************)
(* CustomerStats                                                           *)
(***************************************************************************)
\* collections.Counter: the labels in insertion order with their counts
CounterAdd(counter, label) ==
    IF \E i \in 1..Len(counter) : counter[i].label = label
    THEN [i \in 1..Len(counter) |->
            IF counter[i].label = label
            THEN [label |-> label, n |-> counter[i].n + 1]
            ELSE counter[i]]
    ELSE Append(counter, [label |-> label, n |-> 1])

\* most_common(1): the first label, in insertion order, with the largest count
choose_primary(counter) ==
    IF counter = <<>> THEN NoText
    ELSE LET i == CHOOSE i \in 1..Len(counter) :
                    /\ \A j \in 1..Len(counter) : counter[j].n <= counter[i].n
                    /\ \A j \in 1..(i - 1) : counter[j].n < counter[i].n
         IN  counter[i].label

CustomerStats(key) ==
    [key |-> key, name |-> NoText, phone |-> NoText, address |-> NoText,
     owners |-> <<>>, platforms |-> <<>>, items |-> <<>>,
     first_order |-> NoDate, last_order |-> NoDate,
     orders |-> 0, gross_total |-> 0, net_total |-> 0, cost_total |-> 0,
     profit_total |-> 0, refund_amount |-> 0, refund_count |-> 0,
     cancel_count |-> 0, order_history |-> <<>>, order_details |-> <<>>]

\* a registration that takes the first date seen as the first order
register_valid_order_first_seen(stats, order_date, gross, net, cost, profit, item, owner, platform, address) ==
    LET dated == order_date # NoDate
    IN  [stats EXCEPT
            !.orders = @ + 1,
            !.gross_total = @ + gross,
            !.net_total = @ + net,
            !.cost_total = @ + cost,
            !.profit_total = @ + profit,
            !.order_history =
                IF dated THEN Append(@, <<order_date, net>>) ELSE @,
            !.first_order = IF dated /\ @ = NoDate THEN order_date ELSE @,
            !.last_order =
                IF dated /\ (@ = NoDate \/ order_date > @) THEN order_date ELSE @,
            !.items = IF Truthy(item) THEN CounterAdd(@, Strip(item)) ELSE @,
            !.owners = IF Truthy(owner) THEN CounterAdd(@, Strip(owner)) ELSE @,
            !.platforms =
                IF Truthy(platform) THEN CounterAdd(@, Strip(platform)) ELSE @,
            !.address =
                IF Truthy(address) /\ ~Truthy(@) THEN Strip(address) ELSE @]

register_valid_order(stats, order_date, gross, net, cost, profit, item, owner, platform, address) ==
    LET dated == order_date # NoDate
    IN  [stats EXCEPT
            !.orders = @ + 1,
            !.gross_total = @ + gross,
            !.net_total = @ + net,
            !.cost_total = @ + cost,
            !.profit_total = @ + profit,
            !.order_history =
                IF dated THEN Append(@, <<order_date, net>>) ELSE @,
            !.first_order =
                IF dated /\ (@ = NoDate \/ order_date < @) THEN order_date ELSE @,
            !.last_order =
                IF dated /\ (@ = NoDate \/ order_date > @) THEN order_date ELSE @,
            !.items = IF Truthy(item) THEN CounterAdd(@, Strip(item)) ELSE @,
            !.owners = IF Truthy(owner) THEN CounterAdd(@, Strip(owner)) ELSE @,
            !.platforms =
                IF Truthy(platform) THEN CounterAdd(@, Strip(platform)) ELSE @,
            !.address =
                IF Truthy(address) /\ ~Truthy(@) THEN Strip(address) ELSE @]

register_cancellation(stats) == [stats EXCEPT !.cancel_count = @ + 1]

\* a refund that would also be taken off the net total
register_refund_netted(stats, amount, force) ==
    IF amount > 0
    THEN [stats EXCEPT !.refund_amount = @ + amount, !.refund_count = @ + 1,
                       !.net_total = @ - amount]
    ELSE IF force THEN [stats EXCEPT !.refund_count = @ + 1]
    ELSE stats

\* load_customers always calls it with force = True
register_refund(stats, amount, force) ==
    IF amount > 0
    THEN [stats EXCEPT !.refund_amount = @ + amount, !.refund_count = @ + 1]
    ELSE IF force THEN [stats EXCEPT !.refund_count = @ + 1]
    ELSE stats

\* the fields of a detail record that the engine reads back
append_order_detail(stats, refund_type, order_date, gross_amount, net_amount) ==
    [stats EXCEPT !.order_details =
        Append(@, [refund_type |-> IF refund_type # NoText THEN Strip(refund_type) ELSE "",
                   order_date |-> order_date,
                   gross |-> gross_amount,
                   net |-> net_amount])]

build_customer_key(name, phone, address) ==
    LET phone_part == IF phone = NoText THEN "" ELSE phone
        name_part == IF name = NoText THEN "" ELSE Strip(name)
    IN  IF phone_part # "" THEN phone_part
        ELSE IF name_part # "" /\ Truthy(address)
             THEN name_part \o "|" \o Strip(address)
        ELSE IF name_part # "" THEN name_part
        ELSE IF Truthy(address) THEN Strip(address)
        ELSE "unknown"

(***************************************************************************)
(* load_customers: the body of the loop over the data rows                 *)
(***************************************************************************)
RowStatus(row) ==
    LET status_raw == try_get(row, "status")
    IN  IF Truthy(status_raw) THEN Strip(status_raw) ELSE ""

RowRefundTypeText(row) ==
    LET refund_type_raw == try_get(row, "refund_type")
    IN  IF refund_type_raw # NoText THEN Strip(refund_type_raw) ELSE ""

RowGross(row) == to_float(try_get(row, "gross"))

\* net falls back to gross when the column is missing or the cell is zero
RowNet(row) ==
    LET gross == RowGross(row)
        net == IF "net" \in columns THEN to_float(try_get(row, "net")) ELSE gross
    IN  IF net = 0 /\ gross > 0 THEN gross ELSE net

RowCostPresent(row) ==
    /\ "cost" \in columns
    /\ try_get(row, "cost").k \in {"num", "str"}

RowCost(row) == IF RowCostPresent(row) THEN to_float(try_get(row, "cost")) ELSE 0

RowProfit(row) ==
    IF RowCostPresent(row)
    THEN (IF RowNet(row) > 0 THEN RowNet(row) ELSE RowGross(row)) - RowCost(row)
    ELSE 0

IsCancellationMarkerOnly(row) ==
    \/ HasCancel(RowStatus(row))
    \/ HasCancel(RowRefundTypeText(row))

\* is_cancelled or gross <= 0
IsCancellation(row) ==
    \/ HasCancel(RowStatus(row))
    \/ HasCancel(RowRefundTypeText(row))
    \/ RowGross(row) <= 0

\* a refund test that looks at the refund amount alone
IsRefundEventAmountOnly(row) == to_float(try_get(row, "refund_amount")) > 0

IsRefundEvent(row) ==
    LET refund_status_raw == try_get(row, "refund_status")
    IN  \/ to_float(try_get(row, "refund_amount")) > 0
        \/ (Truthy(refund_status_raw) /\ HasRefund(refund_status_raw))
        \/ HasRefund(RowRefundTypeText(row))

RowKey(row) ==
    build_customer_key(try_get(row, "name"),
                       deduplicate_phone(try_get(row, "phone")),
                       try_get(row, "address"))

\* the CustomerStats of the row's key after the row
LoadRowStats(old, row) ==
    LET name_raw == try_get(row, "name")
        phone == deduplicate_phone(try_get(row, "phone"))
        address_raw == try_get(row, "address")
        refund_type_raw == try_get(row, "refund_type")
        refund_status_raw == try_get(row, "refund_status")
        pay_date == parse_excel_date(try_get(row, "pay_date"))
        s1 == [old EXCEPT
                 !.name = IF Truthy(name_raw) /\ ~Truthy(@) THEN Strip(name_raw) ELSE @,
                 !.phone = IF phone # NoText /\ ~Truthy(@) THEN phone ELSE @,
                 !.address =
                    IF Truthy(address_raw) /\ ~Truthy(@) THEN Strip(address_raw) ELSE @]
        s2 == append_order_detail(
                 s1,
                 IF refund_type_raw # NoText THEN refund_type_raw ELSE refund_status_raw,
                 pay_date, RowGross(row), RowNet(row))
        s3 == IF IsCancellation(row)
              THEN register_cancellation(s2)
              ELSE register_valid_order(
                     s2, pay_date, RowGross(row), RowNet(row), RowCost(row),
                     RowProfit(row), try_get(row, "item"), try_get(row, "owner"),
                     try_get(row, "platform"), address_raw)
    IN  IF IsRefundEvent(row)
        THEN register_refund(s3, to_float(try_get(row, "refund_amount")), TRUE)
        ELSE s3

\* the row raises an AttributeError: build_customer_key strips the name, and
\* the address when there is no phone; register_valid_order strips the item,
\* the owner and the platform of a valid order
RowAborts(row) ==
    \/ IsNumberCell(try_get(row, "name"))
    \/ /\ deduplicate_phone(try_get(row, "phone")) = NoText
       /\ IsNumberCell(try_get(row, "address"))
    \/ /\ ~IsCancellation(row)
       /\ \/ IsNumberCell(try_get(row, "item"))
          \/ IsNumberCell(try_get(row, "owner"))
          \/ IsNumberCell(try_get(row, "platform"))

\* customers after the row: a new key is created on first touch
LoadRow(custs, row) ==
    LET key == RowKey(row)
        old == IF key \in DOMAIN custs THEN custs[key] ELSE CustomerStats(key)
    IN  [k \in (DOMAIN custs) \cup {key} |->
            IF k = key THEN LoadRowStats(old, row) ELSE custs[k]]

LoadOrder(order, row) ==
    IF \E i \in 1..Len(order) : order[i] = RowKey(row)
    THEN order ELSE Append(order, RowKey(row))

\* load_customers over a whole sheet
RECURSIVE LoadAll(_)
LoadAll(rows) ==
    IF rows = <<>> THEN <<>>
    ELSE LoadRow(LoadAll(SubSeq(rows, 1, Len(rows) - 1)), rows[Len(rows)])

(***************************************************************************)
(* ConfigModel                                                             *)
(***************************************************************************)
\* Python's None for a day count (days_since may be negative, so not NoDate)
NoDays == -99999

\* priority_bounds: the clamp bounds in thousandths, never inverted
priority_bounds(cfg) ==
    [lower |-> Min(cfg.priority_min_m, cfg.priority_max_m),
     upper |-> Max(cfg.priority_min_m, cfg.priority_max_m)]

\* resolve_category_name: alias_map.get(name.strip())
resolve_category_name(cfg, item_name) ==
    IF ~Truthy(item_name) THEN NoText
    ELSE IF Strip(item_name) = "" THEN NoText
    ELSE IF \E c \in DOMAIN cfg.categories :
                Strip(item_name) = c \/ Strip(item_name) \in cfg.categories[c].aliases
         THEN CHOOSE c \in DOMAIN cfg.categories :
                Strip(item_name) = c \/ Strip(item_name) \in cfg.categories[c].aliases
         ELSE NoText

\* category_profile: the defaults, overridden by the keys the category sets
category_profile(cfg, category_name) ==
    LET defaults ==
            [gross_margin_c |-> cfg.defaults.gross_margin_c,
             category_cycle_days |-> cfg.defaults.category_cycle_days,
             expected_return_rate_c |-> cfg.defaults.expected_return_rate_c,
             touch_cost_c |-> cfg.defaults.touch_cost_c,
             max_estimated_margin |-> cfg.defaults.max_estimated_margin,
             max_estimated_uplift_m |-> cfg.defaults.max_estimated_uplift_m]
    IN  IF category_name # NoText /\ category_name \in DOMAIN cfg.categories
        THEN LET payload == cfg.categories[category_name].payload
             IN  [key \in DOMAIN defaults |->
                    IF key \in DOMAIN payload THEN payload[key] ELSE defaults[key]]
        ELSE defaults

uplift_params(cfg) ==
    [base_m |-> cfg.defaults.uplift_base_m,
     floor_m |-> cfg.defaults.uplift_floor_m,
     ceiling_m |-> cfg.defaults.uplift_ceiling_m]

platform_cost(cfg, platform_name, fallback_c) ==
    IF ~Truthy(platform_name) THEN fallback_c
    ELSE IF Strip(platform_name) \in DOMAIN cfg.platform_touch_cost
         THEN cfg.platform_touch_cost[Strip(platform_name)]
         ELSE fallback_c

\* orders_weight: the weight of the exact order count, else "default", else 1.0
orders_weight(cfg, orders) ==
    LET od == cfg.orders_dampening
    IN  IF DOMAIN od.by_count = {} /\ od.default = <<>> THEN 1000
        ELSE IF orders \in DOMAIN od.by_count THEN od.by_count[orders]
        ELSE IF od.default # <<>> THEN od.default[1]
        ELSE 1000

timing_boost_params(cfg) == cfg.timing_window_boost_config

(***************************************************************************)
(* Fractions: a return rate or a cycle is n / d with d > 0                 *)
(***************************************************************************)
NoRate == [def |-> FALSE, n |-> 0, d |-> 1]
Rate(n, d) == [def |-> TRUE, n |-> n, d |-> d]
\* rate < c / 100,  rate <= c / 100,  for a defined rate
RateLt(rate, c) == rate.n * 100 < c * rate.d
RateLe(rate, c) == rate.n * 100 <= c * rate.d
\* the rate in thousandths (floor)
RateMilli(rate) == (rate.n * 1000) \div rate.d

(***************************************************************************)
(* compute_time_windows                                                    *)
(***************************************************************************)
\* a loop body whose prev_90 test is an if of its own
AddToWindowsOverlapping(w, order_date, net, t) ==
    [days_30 |-> w.days_30 + (IF order_date >= t - 30 THEN net ELSE 0),
     days_90 |-> w.days_90 + (IF order_date >= t - 90 THEN net ELSE 0),
     prev_90 |-> w.prev_90 + (IF order_date >= t - 180 THEN net ELSE 0),
     days_180 |-> w.days_180 + (IF order_date >= t - 180 THEN net ELSE 0),
     days_365 |-> w.days_365 + (IF order_date >= t - 365 THEN net ELSE 0)]

\* one pass of the loop body: the entry is added to each window it falls in
AddToWindows(w, order_date, net, t) ==
    [days_30 |-> w.days_30 + (IF order_date >= t - 30 THEN net ELSE 0),
     days_90 |-> w.days_90 + (IF order_date >= t - 90 THEN net ELSE 0),
     prev_90 |-> w.prev_90 + (IF order_date >= t - 90 THEN 0
                              ELSE IF order_date >= t - 180 THEN net ELSE 0),
     days_180 |-> w.days_180 + (IF order_date >= t - 180 THEN net ELSE 0),
     days_365 |-> w.days_365 + (IF order_date >= t - 365 THEN net ELSE 0)]

RECURSIVE compute_time_windows(_, _)
compute_time_windows(entries, t) ==
    IF entries = <<>>
    THEN [days_30 |-> 0, days_90 |-> 0, prev_90 |-> 0, days_180 |-> 0, days_365 |-> 0]
    ELSE LET n == Len(entries)
         IN  AddToWindows(compute_time_windows(SubSeq(entries, 1, n - 1), t),
                          entries[n][1], entries[n][2], t)

(***************************************************************************)
(* Thresholds                                                              *)
(***************************************************************************)
RECURSIVE SortSet(_)
\* sorted(set)
SortSet(S) ==
    IF S = {} THEN <<>>
    ELSE LET m == CHOOSE x \in S : \A y \in S : x <= y
         IN  <<m>> \o SortSet(S \ {m})

\* the gaps between consecutive dates, a non-positive gap counted as 1
Intervals(order_dates) ==
    [i \in 1..(Len(order_dates) - 1) |->
        LET gap == order_dates[i + 1] - order_dates[i]
        IN  IF gap > 0 THEN gap ELSE 1]

NoCycle == [def |-> FALSE, n |-> 0, d |-> 1]

\* the cycle as span / (orders - 1) whatever the number of distinct dates
PersonalCycleSpanOnly(stats) ==
    IF stats.orders >= 2 /\ stats.first_order # NoDate /\ stats.last_order # NoDate
    THEN LET span_days == Max(0, stats.last_order - stats.first_order)
         IN  IF span_days <= 0 THEN Rate(1, 1)
             ELSE Rate(span_days, stats.orders - 1)
    ELSE NoCycle

\* personal_cycle_days: the mean gap, else span / (orders - 1) floored to 1
PersonalCycle(stats) ==
    IF stats.orders >= 2 /\ stats.first_order # NoDate /\ stats.last_order # NoDate
    THEN LET order_dates ==
                SortSet({stats.order_history[i][1] : i \in 1..Len(stats.order_history)})
         IN  IF Len(order_dates) >= 2
             THEN Rate(SumSeq(Intervals(order_dates)), Len(Intervals(order_dates)))
             ELSE LET span_days == Max(0, stats.last_order - stats.first_order)
                  IN  IF span_days <= 0 THEN Rate(1, 1)
                      ELSE Rate(span_days, stats.orders - 1)
    ELSE NoCycle

\* personalized_threshold = cycle * churn_multiplier, dropped when <= 0;
\* the value is n / d with the multiplier in tenths
PersonalizedThreshold(cycle, churn_multiplier_t) ==
    IF cycle.def /\ cycle.n * churn_multiplier_t > 0
    THEN Rate(cycle.n * churn_multiplier_t, cycle.d * 10)
    ELSE NoCycle

CategoryThreshold(category_cycle_days, churn_multiplier_t) ==
    Max(1, CeilDiv(Max(1, category_cycle_days) * churn_multiplier_t, 10))

\* the threshold without the personal candidate
LongTermThresholdNoPersonal(churn_days, churn_multiplier_t, category_cycle_days, cycle) ==
    Max(Max(1, churn_days), CategoryThreshold(category_cycle_days, churn_multiplier_t))

LongTermThreshold(churn_days, churn_multiplier_t, category_cycle_days, cycle) ==
    LET fallback_threshold == Max(1, churn_days)
        category_threshold == CategoryThreshold(category_cycle_days, churn_multiplier_t)
        personalized == PersonalizedThreshold(cycle, churn_multiplier_t)
        two == Max(fallback_threshold, category_threshold)
    IN  IF personalized.def
        THEN Max(two, Max(1, CeilDiv(personalized.n, personalized.d)))
        ELSE two

ShortTermThresholdNotHalved(long_term_threshold) ==
    Max(1, long_term_threshold)

ShortTermThreshold(long_term_threshold) ==
    LET half == Max(1, CeilDiv(long_term_threshold, 2))
    IN  IF half >= long_term_threshold /\ long_term_threshold > 1
        THEN long_term_threshold - 1
        ELSE half

(***************************************************************************)
(* estimate_uplift (thousandths)                                           *)
(***************************************************************************)
\* a VIP test that looks at the order count alone
IsVipOrdersOnly(orders, return_rate, aov) == orders >= 7

\* is_vip: aov is the fraction net_total / orders
IsVip(orders, return_rate, aov) ==
    IF orders >= 7
    THEN (return_rate.def /\ RateLt(return_rate, 20)) \/ ~return_rate.def
    ELSE IF orders >= 5
    THEN return_rate.def /\ RateLt(return_rate, 10) /\ aov.n > 400 * aov.d
    ELSE IF orders >= 3 /\ aov.n > 500 * aov.d
    THEN (return_rate.def /\ RateLt(return_rate, 15)) \/ ~return_rate.def
    ELSE FALSE

\* the recency factor applied to the base uplift, in thousandths
RecencyFactor(is_vip, days_since) ==
    IF is_vip
    THEN IF days_since <= 30 THEN 900
         ELSE IF days_since <= 90 THEN 1100
         ELSE IF days_since <= 180 THEN 950
         ELSE 800
    ELSE IF days_since <= 30 THEN 700
         ELSE IF days_since <= 90 THEN 1300 + ((days_since - 30) * 200) \div 60
         ELSE IF days_since <= 180 THEN 1500 - ((days_since - 90) * 700) \div 90
         ELSE 500

\* estimate_uplift without the upper clamp
estimate_uplift_no_ceiling(days_since, threshold, cfg, extra_ceiling_m, orders, return_rate, aov) ==
    LET params == uplift_params(cfg)
        floor_m == IF orders >= 3 THEN Max(params.floor_m, 1000) ELSE params.floor_m
    IN  IF days_since = NoDays \/ threshold <= 0
        THEN Max(floor_m, params.base_m)
        ELSE LET ratio_m == (days_since * 1000) \div Max(threshold, 1)
                 uplift == params.base_m + Max(0, ratio_m - 1000)
                 factor == RecencyFactor(IsVip(orders, return_rate, aov), days_since)
             IN  Max(floor_m, (uplift * factor) \div 1000)

\* extra_ceiling_m is always given: category_profile always has the uplift cap
estimate_uplift(days_since, threshold, cfg, extra_ceiling_m, orders, return_rate, aov) ==
    LET params == uplift_params(cfg)
        floor_m == IF orders >= 3 THEN Max(params.floor_m, 1000) ELSE params.floor_m
        ceiling0 == Min(params.ceiling_m, extra_ceiling_m)
        ceiling_m == IF ceiling0 < floor_m THEN floor_m ELSE ceiling0
    IN  IF days_since = NoDays \/ threshold <= 0
        THEN Max(floor_m, Min(ceiling_m, params.base_m))
        ELSE LET ratio_m == (days_since * 1000) \div Max(threshold, 1)
                 uplift == params.base_m + Max(0, ratio_m - 1000)
                 factor == RecencyFactor(IsVip(orders, return_rate, aov), days_since)
             IN  Max(floor_m, Min(ceiling_m, (uplift * factor) \div 1000))

(***************************************************************************)
(* calculate_timing_boost (hundredths)                                     *)
(***************************************************************************)
\* exp(-n) for a whole n, scaled by 100000
ExpNegInt(n) ==
    IF n = 0 THEN 100000 ELSE IF n = 1 THEN 36788 ELSE IF n = 2 THEN 13534
    ELSE IF n = 3 THEN 4979 ELSE IF n = 4 THEN 1832 ELSE IF n = 5 THEN 674
    ELSE IF n = 6 THEN 248 ELSE IF n = 7 THEN 91 ELSE IF n = 8 THEN 34
    ELSE IF n = 9 THEN 12 ELSE IF n = 10 THEN 5 ELSE IF n = 11 THEN 2
    ELSE IF n = 12 THEN 1 ELSE 0

\* exp(-f / 10000) for 0 <= f < 10000, scaled by 100000: the series to x^8
ExpNegFrac(f) ==
    LET t1 == (100000 * f) \div 10000
        t2 == (t1 * f) \div 20000
        t3 == (t2 * f) \div 30000
        t4 == (t3 * f) \div 40000
        t5 == (t4 * f) \div 50000
        t6 == (t5 * f) \div 60000
        t7 == (t6 * f) \div 70000
        t8 == (t7 * f) \div 80000
    IN  100000 - t1 + t2 - t3 + t4 - t5 + t6 - t7 + t8

\* math.exp(-z) for z >= 0 in ten-thousandths, scaled by 100000
ExpNeg(z4) ==
    LET a == ExpNegInt(z4 \div 10000)
        b == ExpNegFrac(z4 % 10000)
    IN  (a * (b \div 100)) \div 1000 + (a * (b % 100)) \div 100000

\* exchange lines among the detail records
ExchangeCount(stats) ==
    Cardinality({i \in 1..Len(stats.order_details) :
                    HasExchange(stats.order_details[i].refund_type)})

OutsideWindowLowerOnly(days_since, cycle, window_percentage_c) ==
    days_since * cycle.d * 100 < cycle.n * (100 - window_percentage_c)

\* days_since < lower_bound or days_since > upper_bound, the window being
\* cycle * (1 -/+ window_percentage), with the percentage in hundredths
OutsideWindow(days_since, cycle, window_percentage_c) ==
    \/ days_since * cycle.d * 100 < cycle.n * (100 - window_percentage_c)
    \/ days_since * cycle.d * 100 > cycle.n * (100 + window_percentage_c)

\* peak_boost * exp(-k * normalized_distance^2), rounded to two decimals
GaussianBoost(days_since, cycle, params) ==
    LET radius_n == cycle.n * params.window_percentage_c
        distance_n == Abs(days_since * cycle.d - cycle.n) * 100
        nd4 == IF radius_n > 0 THEN (distance_n * 10000) \div radius_n ELSE 0
        ndsq4 == (nd4 * nd4) \div 10000
        z4 == (params.gaussian_k_t * ndsq4) \div 10
    IN  (params.peak_boost_c * ExpNeg(z4) + 50000) \div 100000

calculate_timing_boost(days_since, personal_cycle_days, stats, return_rate, cfg) ==
    LET params == timing_boost_params(cfg)
    IN  IF ~params.enabled THEN 0
        ELSE IF days_since = NoDays \/ ~personal_cycle_days.def THEN 0
        ELSE IF stats.orders < params.min_orders THEN 0
        ELSE IF stats.orders - ExchangeCount(stats) < params.min_orders THEN 0
        ELSE IF ExchangeCount(stats) > 0 THEN 0
        ELSE IF return_rate.def /\ ~RateLe(return_rate, params.max_return_rate_c) THEN 0
        ELSE IF OutsideWindow(days_since, personal_cycle_days, params.window_percentage_c)
             THEN 0
        ELSE GaussianBoost(days_since, personal_cycle_days, params)

(***************************************************************************)
(* compute_customer_lifecycle_value (thousandths of a point)               *)
(***************************************************************************)
GrowthType(stats, windows) ==
    LET recent_90 == windows.days_90
        prev_90 == windows.prev_90
    IN  IF stats.orders >= 2
        THEN IF prev_90 > 0
             THEN IF (recent_90 - prev_90) * 5 > prev_90 THEN "growing"
                  ELSE IF (recent_90 - prev_90) * 5 < 0 - prev_90 THEN "declining"
                  ELSE "stable"
             ELSE IF recent_90 > 0 THEN "stable" ELSE "dormant"
        ELSE IF windows.days_30 > 200 THEN "high_potential_new" ELSE "new"

ClvScore(stats, windows, t) ==
    LET recent_90 == windows.days_90
        prev_90 == windows.prev_90
        recent_30 == windows.days_30
        historical ==
            IF stats.net_total > 0
            THEN (Min(100000, stats.net_total * 10) * 25) \div 100
                 + (Min(100000, stats.orders * 5000) * 15) \div 100
            ELSE 0
        activity ==
            IF stats.last_order # NoDate
            THEN (Max(0, 100000 - ((t - stats.last_order) * 100000) \div 180) * 15) \div 100
                 + (IF stats.net_total > 0
                    THEN (Min(100000, (recent_90 * 200000) \div Max(stats.net_total, 1)) * 15)
                            \div 100
                    ELSE 0)
            ELSE 0
        growth_type == GrowthType(stats, windows)
        trend ==
            IF prev_90 > 0
            THEN IF growth_type = "growing"
                 THEN (Min(100000, ((recent_90 - prev_90) * 100000) \div prev_90) * 20) \div 100
                 ELSE IF growth_type = "declining"
                 THEN (Max(0, 50000 + ((recent_90 - prev_90) * 50000) \div prev_90) * 20)
                        \div 100
                 ELSE 12000
            ELSE IF recent_90 > 0 THEN 12000 ELSE 4000
        frequent ==
            IF stats.orders >= 3
               /\ stats.last_order # NoDate /\ stats.first_order # NoDate
               /\ stats.last_order - stats.first_order < 60 * (stats.orders - 1)
            THEN 1000 ELSE 0
        aov_growth ==
            IF recent_90 > 0 /\ recent_30 > 0
               /\ recent_30 * stats.orders * 10 > stats.net_total * 12
            THEN 1000 ELSE 0
        growth ==
            IF stats.orders >= 2 THEN trend + frequent + aov_growth
            ELSE IF recent_30 > 200 THEN 24000 ELSE 15000
    IN  historical + activity + growth

PotentialLabel(clv_score, growth_type) ==
    IF clv_score >= 70000 THEN "star"
    ELSE IF clv_score >= 40000 \/ growth_type \in {"growing", "high_potential_new"}
    THEN "potential"
    ELSE "ordinary"

(***************************************************************************)
(* Segmentation                                                            *)
(***************************************************************************)
bucket_priority_score(score_m) ==
    IF score_m >= 80000 THEN "priority-high"
    ELSE IF score_m >= 50000 THEN "priority-mid"
    ELSE IF score_m >= 0 THEN "priority-low"
    ELSE "priority-other"

classify_customer_value(net_total, orders) ==
    IF net_total >= 5000 \/ (orders >= 3 /\ net_total >= 500 * orders) THEN "high"
    ELSE IF net_total >= 2000 \/ orders >= 2 THEN "mid"
    ELSE "low"

\* the super-VIP rule on the order count tried before the high-risk rules
classify_customer_list_vip_first(orders, return_rate, potential_label, days_since, net_total, tags, priority_score_c, long_term_threshold) ==
    IF orders >= 7 /\ (~return_rate.def \/ RateLt(return_rate, 20)) THEN "super_vip"
    ELSE IF "refund_spike" \in SeqToSet(tags) THEN "high_risk"
    ELSE IF return_rate.def /\ ~RateLe(return_rate, 40) /\ priority_score_c >= 5000
    THEN "high_risk"
    ELSE IF orders >= 7 /\ (~return_rate.def \/ RateLt(return_rate, 20)) THEN "super_vip"
    ELSE IF net_total >= 2000 /\ orders >= 5
            /\ (~return_rate.def \/ RateLt(return_rate, 25)) THEN "super_vip"
    ELSE IF priority_score_c >= 20000 /\ orders >= 5 THEN "super_vip"
    ELSE IF potential_label = "star" /\ orders >= 5 THEN "super_vip"
    ELSE IF days_since # NoDays /\ days_since < 90 /\ orders >= 2
            /\ (~return_rate.def \/ RateLt(return_rate, 30)) THEN "nurture"
    ELSE IF days_since # NoDays /\ days_since >= 90
            /\ days_since <= long_term_threshold * 3
            /\ (orders >= 3 \/ net_total >= 1000)
            /\ (~return_rate.def \/ RateLt(return_rate, 50)) THEN "at_risk"
    ELSE "nurture"

\* tags is the list whose join is tags_text; priority_score_c is in hundredths
classify_customer_list(orders, return_rate, potential_label, days_since, net_total, tags, priority_score_c, long_term_threshold) ==
    IF "refund_spike" \in SeqToSet(tags) THEN "high_risk"
    ELSE IF return_rate.def /\ ~RateLe(return_rate, 40) /\ priority_score_c >= 5000
    THEN "high_risk"
    ELSE IF orders >= 7 /\ (~return_rate.def \/ RateLt(return_rate, 20)) THEN "super_vip"
    ELSE IF net_total >= 2000 /\ orders >= 5
            /\ (~return_rate.def \/ RateLt(return_rate, 25)) THEN "super_vip"
    ELSE IF priority_score_c >= 20000 /\ orders >= 5 THEN "super_vip"
    ELSE IF potential_label = "star" /\ orders >= 5 THEN "super_vip"
    ELSE IF days_since # NoDays /\ days_since < 90 /\ orders >= 2
            /\ (~return_rate.def \/ RateLt(return_rate, 30)) THEN "nurture"
    ELSE IF days_since # NoDays /\ days_since >= 90
            /\ days_since <= long_term_threshold * 3
            /\ (orders >= 3 \/ net_total >= 1000)
            /\ (~return_rate.def \/ RateLt(return_rate, 50)) THEN "at_risk"
    ELSE "nurture"

(***************************************************************************)
(* build_alert_rows: the per-customer computation                          *)
(***************************************************************************)
DaysSince(stats, t) == IF stats.last_order # NoDate THEN t - stats.last_order ELSE NoDays

ReturnRateUncapped(stats) ==
    IF stats.orders > 0 THEN Rate(stats.refund_count, Max(stats.orders, 1))
    ELSE IF stats.refund_count > 0 THEN Rate(1, 1)
    ELSE NoRate

\* return_rate = min(refund_count / orders, 1.0)
ReturnRate(stats) ==
    IF stats.orders > 0
    THEN Rate(Min(stats.refund_count, Max(stats.orders, 1)), Max(stats.orders, 1))
    ELSE IF stats.refund_count > 0 THEN Rate(1, 1)
    ELSE NoRate

\* avg_order_value as the fraction net_total / orders (0.0 without orders)
Aov(stats) ==
    IF stats.orders > 0 THEN [n |-> stats.net_total, d |-> stats.orders]
    ELSE [n |-> 0, d |-> 1]

AnniversaryMatch(stats, a) ==
    /\ stats.last_order # NoDate
    /\ \E i \in 1..Len(a.anniversary_dates) :
            Abs(stats.last_order - a.anniversary_dates[i]) <= a.anniversary_window

Tags(stats, windows, days_since, long_term_threshold, short_term_threshold, a) ==
    LET high_value ==
            stats.net_total >= a.high_value_threshold /\ a.high_value_threshold > 0
        t1 == IF days_since = NoDays THEN <<>>
              ELSE IF high_value /\ days_since >= long_term_threshold
                   THEN <<"high_value_churn">>
              ELSE IF days_since >= long_term_threshold THEN <<"long_no_repurchase">>
              ELSE IF days_since >= short_term_threshold THEN <<"short_no_repurchase">>
              ELSE <<>>
        t2 == IF windows.prev_90 > 0
                 /\ windows.days_90 * 100 <= windows.prev_90 * a.drop_threshold_c
              THEN Append(t1, "spend_drop") ELSE t1
        t3 == IF stats.refund_amount > 0 /\ stats.net_total > 0
                 /\ (stats.refund_amount * 10 >= 3 * Max(stats.net_total, 1)
                     \/ stats.refund_count >= 2)
              THEN Append(t2, "refund_spike") ELSE t2
        t4 == IF AnniversaryMatch(stats, a) THEN Append(t3, "anniversary") ELSE t3
    IN  IF t4 = <<>> /\ stats.net_total >= a.high_value_threshold
           /\ days_since # NoDays /\ days_since < Max(30, short_term_threshold)
        THEN <<"high_value_active">>
        ELSE t4

\* use_premium_uplift and the resulting effective_uplift_cap
EffectiveUpliftCap(stats, return_rate, cfg, uplift_cap_m) ==
    LET use_premium_uplift ==
            /\ stats.orders >= cfg.defaults.uplift_premium_min_orders
            /\ return_rate.def
            /\ RateLt(return_rate, cfg.defaults.uplift_premium_max_return_c)
            /\ stats.first_order # NoDate /\ stats.last_order # NoDate
            /\ stats.last_order - stats.first_order
                    >= cfg.defaults.uplift_premium_min_days_span
    IN  IF use_premium_uplift
        THEN Min(cfg.defaults.uplift_ceiling_premium_m, uplift_cap_m)
        ELSE uplift_cap_m

\* estimated_margin in hundredths
EstimatedMargin(stats, profile) ==
    LET margin_cap_c == Max(0, profile.max_estimated_margin * 100)
        raw == IF stats.orders > 0 /\ stats.profit_total > 0
               THEN (stats.profit_total * 100) \div stats.orders
               ELSE IF stats.orders > 0
               THEN (stats.net_total * profile.gross_margin_c) \div stats.orders
               ELSE 0
        floored == Max(0, raw)
    IN  IF margin_cap_c > 0 THEN Min(floored, margin_cap_c) ELSE floored

\* estimated_return_rate in thousandths
EstimatedReturnRate(stats, return_rate, profile) ==
    LET expected_m == profile.expected_return_rate_c * 10
    IN  IF stats.orders >= 3 /\ return_rate.def
        THEN Min(950, (700 * RateMilli(return_rate) + 300 * expected_m) \div 1000)
        ELSE IF return_rate.def THEN Min(950, Max(RateMilli(return_rate), expected_m))
        ELSE Min(950, expected_m)

\* one penalty for every customer with an exchange line
ExchangePenaltyFlat(orders, exchange_count) ==
    IF exchange_count > 0 THEN 0 - 50 ELSE 0

ExchangePenalty(orders, exchange_count) ==
    LET effective_orders == orders - exchange_count
    IN  IF exchange_count > 0
        THEN IF effective_orders < 2 THEN 0 - 200
             ELSE IF effective_orders = 2 THEN 0 - 100
             ELSE IF effective_orders <= 4 THEN 0 - 50
             ELSE 0
        ELSE 0

\* the tiers by order count alone
ClvBoostByOrders(potential_label, orders) ==
    IF orders >= 10 THEN 40
    ELSE IF orders >= 7 THEN 30
    ELSE IF orders >= 5 THEN 20
    ELSE IF orders >= 4 THEN 10
    ELSE IF orders >= 3 THEN 5
    ELSE 0

ClvBoost(potential_label, orders) ==
    IF potential_label = "star" THEN 30
    ELSE IF potential_label = "potential" THEN 15
    ELSE IF orders >= 10 THEN 40
    ELSE IF orders >= 7 THEN 30
    ELSE IF orders >= 5 THEN 20
    ELSE IF orders >= 4 THEN 10
    ELSE IF orders >= 3 THEN 5
    ELSE 0

ReturnRateBoost(return_rate) ==
    IF ~return_rate.def THEN 0
    ELSE IF ~RateLt(return_rate, 49) THEN 0 - 80
    ELSE IF RateLe(return_rate, 0) THEN 20
    ELSE IF RateLt(return_rate, 10) THEN 15
    ELSE IF RateLt(return_rate, 20) THEN 10
    ELSE IF RateLt(return_rate, 30) THEN 5
    ELSE 0

AovBoost(aov) ==
    IF aov.n > 500 * aov.d THEN 25
    ELSE IF aov.n > 400 * aov.d THEN 15
    ELSE IF aov.n > 300 * aov.d THEN 10
    ELSE IF aov.n > 200 * aov.d THEN 5
    ELSE 0

ActivityBoost(days_since, orders, return_rate) ==
    IF days_since # NoDays /\ days_since < 45
    THEN IF orders >= 3 /\ return_rate.def /\ RateLt(return_rate, 20) THEN 50
         ELSE IF orders >= 2 /\ return_rate.def /\ RateLt(return_rate, 30) THEN 30
         ELSE 0
    ELSE 0

PlatformBoost(top_platform) ==
    IF top_platform \in {"album", "shop3"} THEN 15
    ELSE IF top_platform = "shop2" THEN 10
    ELSE IF top_platform = "shop4" THEN 8
    ELSE IF top_platform = "shop1" THEN 5
    ELSE IF top_platform \in {"xianyu", "xianyu2"} THEN 0 - 5
    ELSE IF top_platform = "dropship" THEN 0 - 10
    ELSE 0

HighFreqBoost(cycle, top_platform, aov) ==
    IF cycle.def /\ cycle.n < 30 * cycle.d /\ top_platform # "dropship"
    THEN IF aov.n > 300 * aov.d THEN 60 ELSE 40
    ELSE 0

SuperVipBoostNoTop(orders, return_rate) ==
    IF orders >= 7 /\ (~return_rate.def \/ RateLt(return_rate, 15)) THEN 60
    ELSE IF orders >= 5 /\ (~return_rate.def \/ RateLt(return_rate, 10)) THEN 40
    ELSE 0

SuperVipBoost(orders, return_rate) ==
    IF orders >= 10 /\ (~return_rate.def \/ RateLt(return_rate, 20)) THEN 80
    ELSE IF orders >= 7 /\ (~return_rate.def \/ RateLt(return_rate, 15)) THEN 60
    ELSE IF orders >= 5 /\ (~return_rate.def \/ RateLt(return_rate, 10)) THEN 40
    ELSE 0

LongDormantPenalty(days_since, orders) ==
    IF days_since # NoDays /\ days_since >= 180
    THEN IF orders = 2 THEN 0 - 100
         ELSE IF orders = 3 THEN 0 - 60
         ELSE IF orders = 4 THEN 0 - 40
         ELSE 0
    ELSE 0

\* min(upper_bound, max(lower_bound, unbounded)), in thousandths
ClampScore(cfg, unbounded_m) ==
    Min(priority_bounds(cfg).upper, Max(priority_bounds(cfg).lower, unbounded_m))

\* priority_score = round(priority_score_clamped, 2), in hundredths
RoundScore(clamped_m) == RoundDiv10(clamped_m)

\* everything build_alert_rows computes for one customer before the
\* contact log is consulted
ScoreCustomer(stats, t, cfg, a) ==
    LET windows == compute_time_windows(stats.order_history, t)
        days_since == DaysSince(stats, t)
        cycle == PersonalCycle(stats)
        top_platform == choose_primary(stats.platforms)
        top_item == choose_primary(stats.items)
        profile == category_profile(cfg, resolve_category_name(cfg, top_item))
        long_term_threshold ==
            LongTermThreshold(a.churn_days, a.churn_multiplier_t,
                              profile.category_cycle_days, cycle)
        short_term_threshold == ShortTermThreshold(long_term_threshold)
        tags == Tags(stats, windows, days_since, long_term_threshold,
                     short_term_threshold, a)
        return_rate == ReturnRate(stats)
        aov == Aov(stats)
        estimated_uplift ==
            estimate_uplift(days_since, long_term_threshold, cfg,
                            EffectiveUpliftCap(stats, return_rate, cfg,
                                               profile.max_estimated_uplift_m),
                            stats.orders, return_rate, aov)
        estimated_margin == EstimatedMargin(stats, profile)
        estimated_return_rate == EstimatedReturnRate(stats, return_rate, profile)
        touch_cost == Max(0, platform_cost(cfg, top_platform, profile.touch_cost_c))
        clv_score == ClvScore(stats, windows, t)
        growth_type == GrowthType(stats, windows)
        potential_label == PotentialLabel(clv_score, growth_type)
        pre_weight_c ==
            ((((estimated_uplift * estimated_margin) \div 1000)
                * (1000 - estimated_return_rate)) \div 1000) - touch_cost
        exchange_count == ExchangeCount(stats)
        exchange_penalty == ExchangePenalty(stats.orders, exchange_count)
        super_vip_boost == SuperVipBoost(stats.orders, return_rate)
        timing_window_boost ==
            calculate_timing_boost(days_since, cycle, stats, return_rate, cfg)
        long_dormant_penalty == LongDormantPenalty(days_since, stats.orders)
        clv_boost == ClvBoost(potential_label, stats.orders)
        return_rate_boost == ReturnRateBoost(return_rate)
        aov_boost == AovBoost(aov)
        activity_boost == ActivityBoost(days_since, stats.orders, return_rate)
        platform_boost == PlatformBoost(top_platform)
        high_freq_boost == HighFreqBoost(cycle, top_platform, aov)
        total_boost_m ==
            (clv_boost + return_rate_boost + aov_boost + activity_boost
             + platform_boost + high_freq_boost + super_vip_boost
             + exchange_penalty + long_dormant_penalty) * 1000
            + timing_window_boost * 10
        weight_m == orders_weight(cfg, stats.orders)
        unbounded_m == (pre_weight_c * weight_m) \div 100 + total_boost_m
        clamped_m == ClampScore(cfg, unbounded_m)
    IN  [key |-> stats.key,
         phone |-> stats.phone,
         orders |-> stats.orders,
         cancel_count |-> stats.cancel_count,
         refund_count |-> stats.refund_count,
         net_total |-> stats.net_total,
         last_order |-> stats.last_order,
         days |-> days_since,
         cycle |-> cycle,
         threshold_days |-> long_term_threshold,
         short_term_threshold |-> short_term_threshold,
         tags |-> tags,
         anniversary_match |-> AnniversaryMatch(stats, a),
         return_rate |-> return_rate,
         aov |-> aov,
         estimated_uplift |-> estimated_uplift,
         clv_score |-> clv_score,
         growth_type |-> growth_type,
         potential_label |-> potential_label,
         exchange_count |-> exchange_count,
         effective_orders |-> stats.orders - exchange_count,
         exchange_penalty |-> exchange_penalty,
         clv_boost |-> clv_boost,
         return_rate_boost |-> return_rate_boost,
         aov_boost |-> aov_boost,
         activity_boost |-> activity_boost,
         platform_boost |-> platform_boost,
         high_freq_boost |-> high_freq_boost,
         super_vip_boost |-> super_vip_boost,
         long_dormant_penalty |-> long_dormant_penalty,
         timing_window_boost |-> timing_window_boost,
         total_boost_m |-> total_boost_m,
         priority_score_pre_weight |-> pre_weight_c,
         orders_weight |-> weight_m,
         priority_score_unbounded |-> unbounded_m,
         priority_score |-> RoundScore(clamped_m),
         priority_class |-> bucket_priority_score(clamped_m),
         customer_value |-> classify_customer_value(stats.net_total, stats.orders)]

(***************************************************************************)
(* build_alert_rows: contact log, inclusion, cooldown and filters          *)
(***************************************************************************)
\* classify_reply_status over the vocabulary of status texts:
\* "false" = a no-reply keyword, "true" = a positive keyword, "none" = neither
classify_reply_status(status) ==
    IF ~Truthy(status) THEN "none"
    ELSE IF status \in {"no_reply", "refused", "replied_then_no_reply"} THEN "false"
    ELSE IF status \in {"replied", "deal"} THEN "true"
    ELSE "none"

\* one data row of the contact-log sheet applied to (contact_map, info_map):
\* the date map keeps the latest date of a phone, the info map the status of
\* the last row of that phone, in sheet order, whose status cell is not empty
ContactRowApplied(maps, row) ==
    LET phone == deduplicate_phone(row.phone)
        contact_date == parse_excel_date(row.date)
        prev == IF phone \in DOMAIN maps.contact_map
                THEN maps.contact_map[phone] ELSE NoDate
        contact_map ==
            IF Truthy(phone) /\ contact_date # NoDate
               /\ (prev = NoDate \/ contact_date > prev)
            THEN [p \in (DOMAIN maps.contact_map) \cup {phone} |->
                    IF p = phone THEN contact_date ELSE maps.contact_map[p]]
            ELSE maps.contact_map
        old_status == IF phone \in DOMAIN maps.info_map
                      THEN maps.info_map[phone].status ELSE NoText
        info == [status |-> IF Truthy(row.status) THEN Strip(row.status)
                            ELSE old_status]
    IN  IF ~Truthy(phone)
        THEN [contact_map |-> contact_map, info_map |-> maps.info_map]
        ELSE [contact_map |-> contact_map,
              info_map |-> [p \in (DOMAIN maps.info_map) \cup {phone} |->
                                IF p = phone THEN info ELSE maps.info_map[p]]]

RECURSIVE ContactRowsApplied(_, _)
ContactRowsApplied(maps, rows) ==
    IF rows = <<>> THEN maps
    ELSE ContactRowsApplied(ContactRowApplied(maps, Head(rows)), Tail(rows))

load_contact_log_extended(rows) ==
    ContactRowsApplied([contact_map |-> <<>>, info_map |-> <<>>], rows)

\* str(ci_meta.get("status") or "")
ContactStatus(phone) ==
    LET p == IF phone = NoText THEN "" ELSE phone
    IN  IF p \in DOMAIN contact_info /\ contact_info[p].status # NoText
        THEN contact_info[p].status ELSE ""

\* contact_log.get(stats.phone) if (contact_log and stats.phone) else None
LastContactDate(phone) ==
    IF DOMAIN contact_log # {} /\ Truthy(phone) /\ phone \in DOMAIN contact_log
    THEN contact_log[phone] ELSE NoDate

\* ConfigModel.allow_single_order; a.today_dom is today's day of the month and
\* a.prev_month_len the length of the previous calendar month
allow_single_order(cfg, last_order, t, a) ==
    IF ~cfg.single_order_enabled THEN TRUE
    ELSE IF last_order = NoDate THEN FALSE
    ELSE IF cfg.single_order_mode = "previous_month"
    THEN /\ t - a.today_dom - a.prev_month_len + 1 <= last_order
         /\ last_order <= t - a.today_dom
    ELSE IF cfg.single_order_mode = "days"
    THEN last_order >= t - Max(0, cfg.single_order_days)
    ELSE TRUE

IncludeInAction(r, a) ==
    IF r.tags # <<>> /\ ~(a.anniversary_only /\ ~r.anniversary_match) THEN TRUE
    ELSE IF r.potential_label \in {"star", "potential"} THEN TRUE
    ELSE IF r.priority_score >= 5000 THEN TRUE
    ELSE IF r.orders >= 5 THEN TRUE
    ELSE r.growth_type \in {"growing", "high_potential_new"}

GlobalCooldownOff(r, a, t) == "go"

\* the early exit of the "all" cooldown scope: "drop" = no-reply customer,
\* "snooze" = inside the cooldown window, "go" = continue to the triggers
GlobalCooldown(r, a, t) ==
    LET last_contact_date == LastContactDate(r.phone)
    IN  IF a.cooldown_scope = "all" /\ Max(0, a.cooldown_days) > 0
           /\ last_contact_date # NoDate
        THEN IF classify_reply_status(ContactStatus(r.phone)) = "false" THEN "drop"
             ELSE IF Max(0, t - last_contact_date) < Max(0, a.cooldown_days)
             THEN "snooze"
             ELSE "go"
        ELSE "go"

InCooldownNever(r, a, t) == FALSE

InCooldown(r, a, t) ==
    /\ Max(0, a.cooldown_days) > 0
    /\ LastContactDate(r.phone) # NoDate
    /\ Max(0, t - LastContactDate(r.phone)) < Max(0, a.cooldown_days)

PassesFiltersRecentOnly(r, cfg, a, t) ==
    ~(r.days # NoDays /\ r.days < Max(0, a.exclude_recent_days))

\* the four filters applied to a customer that is not in cooldown
PassesFilters(r, cfg, a, t) ==
    /\ ~(r.days # NoDays /\ r.days < Max(0, a.exclude_recent_days))
    /\ ~(~a.allow_high_return /\ r.return_rate.def /\ ~RateLt(r.return_rate, 49))
    /\ ~(r.orders = 1 /\ ~allow_single_order(cfg, r.last_order, t, a))
    /\ ~(r.potential_label # "star" /\ r.days # NoDays /\ r.days > r.threshold_days * 3)

OverviewRow(r) ==
    [key |-> r.key, phone |-> r.phone, last_order |-> r.last_order, days |-> r.days,
     priority_score |-> r.priority_score,
     timing_window_boost |-> r.timing_window_boost,
     orders |-> r.orders, cancel_count |-> r.cancel_count, net_total |-> r.net_total,
     return_rate |-> r.return_rate, refund_count |-> r.refund_count,
     tags |-> r.tags, clv_score |-> r.clv_score, growth_type |-> r.growth_type,
     potential_label |-> r.potential_label]

\* a meta entry that keeps the score from before the clamp
MetaEntryUnbounded(r) ==
    [priority_class |-> r.priority_class, priority_score |-> r.priority_score_unbounded,
     customer_value |-> r.customer_value, orders |-> r.orders,
     return_rate |-> r.return_rate, days |-> r.days, aov |-> r.aov,
     last_order |-> r.last_order, contact_status |-> ContactStatus(r.phone)]

MetaEntry(r) ==
    [priority_class |-> r.priority_class, priority_score |-> r.priority_score,
     customer_value |-> r.customer_value, orders |-> r.orders,
     return_rate |-> r.return_rate, days |-> r.days, aov |-> r.aov,
     last_order |-> r.last_order, contact_status |-> ContactStatus(r.phone)]

ActionRow(r, customer_list) ==
    [customer_list |-> customer_list,
     priority_class |-> r.priority_class,
     priority_score |-> r.priority_score,
     priority_score_raw |-> r.priority_score,
     priority_score_unbounded |-> r.priority_score_unbounded,
     priority_score_pre_weight |-> r.priority_score_pre_weight,
     orders_weight |-> r.orders_weight,
     last_order |-> r.last_order, phone |-> r.phone, tags |-> r.tags,
     customer_value |-> r.customer_value, clv_score |-> r.clv_score,
     growth_type |-> r.growth_type, potential_label |-> r.potential_label,
     orders |-> r.orders, return_rate |-> r.return_rate, days |-> r.days,
     aov |-> r.aov, cycle |-> r.cycle, threshold_days |-> r.threshold_days,
     estimated_uplift |-> r.estimated_uplift,
     detail_key |-> r.key,
     contact_status |-> ContactStatus(r.phone)]

CustomerList(r, in_cooldown) ==
    IF in_cooldown THEN "cooldown"
    ELSE classify_customer_list(r.orders, r.return_rate, r.potential_label, r.days,
                                r.net_total, r.tags, r.priority_score,
                                r.threshold_days)

\* if not stats.orders: continue
SkipNever(stats) == FALSE

SkipCustomer(stats) == stats.orders = 0

(***************************************************************************)
(* The final sort                                                          *)
(***************************************************************************)
SortKeyLessScoreOnly(a, b) == a.priority_score_raw > b.priority_score_raw

\* action_sort_key(a) < action_sort_key(b):
\* (-score, -orders, rate or 1.1, -aov), compared as tuples
SortKeyLess(a, b) ==
    LET ra == IF a.return_rate.def THEN a.return_rate ELSE Rate(11, 10)
        rb == IF b.return_rate.def THEN b.return_rate ELSE Rate(11, 10)
    IN  \/ a.priority_score_raw > b.priority_score_raw
        \/ /\ a.priority_score_raw = b.priority_score_raw
           /\ \/ a.orders > b.orders
              \/ /\ a.orders = b.orders
                 /\ \/ ra.n * rb.d < rb.n * ra.d
                    \/ /\ ra.n * rb.d = rb.n * ra.d
                       /\ a.aov.n * b.aov.d > b.aov.n * a.aov.d

\* x placed behind every element that does not sort after it
InsertStable(sorted, x) ==
    LET k == Cardinality({i \in 1..Len(sorted) : ~SortKeyLess(x, sorted[i])})
    IN  SubSeq(sorted, 1, k) \o <<x>> \o SubSeq(sorted, k + 1, Len(sorted))

RECURSIVE StableSort(_)
StableSort(rows) ==
    IF rows = <<>> THEN <<>>
    ELSE InsertStable(StableSort(SubSeq(rows, 1, Len(rows) - 1)), rows[Len(rows)])

IsSortedByKey(rows) ==
    \A i \in 1..(Len(rows) - 1) : ~SortKeyLess(rows[i + 1], rows[i])

\* the orders an unstable sort could leave: any sorted arrangement of the rows
SortResultsUnstable(rows) ==
    {[i \in 1..Len(rows) |-> rows[p[i]]] :
        p \in {q \in [1..Len(rows) -> 1..Len(rows)] :
                /\ \A i, j \in 1..Len(rows) : i # j => q[i] # q[j]
                /\ IsSortedByKey([i \in 1..Len(rows) |-> rows[q[i]]])}}

\* the lists list.sort(key = action_sort_key) can leave: the sort is stable,
\* so there is exactly one
SortResults(rows) == {StableSort(rows)}

(***************************************************************************)
(* Actions                                                                 *)
(***************************************************************************)
Outputs == [overview_rows |-> overview_rows, action_rows |-> action_rows,
            snoozed_total |-> snoozed_total, meta_map |-> meta_map,
            cooldown_customers |-> cooldown_customers]

\* no customer has been scored yet
NoLocals == [key |-> NoText]

NoOutputs == [overview_rows |-> <<>>, action_rows |-> <<>>, snoozed_total |-> 0,
              meta_map |-> <<>>, cooldown_customers |-> <<>>]

\* load_customers reads one data row of the sheet; an exception raised in the
\* loop body is caught nowhere and ends the run before any output
ReadRow(RowSet, limit) ==
    /\ pc = "load" /\ run = 1
    /\ Len(ws) < limit
    /\ \E row \in RowSet :
        /\ ws' = Append(ws, row)
        /\ IF RowAborts(row)
           THEN /\ pc' = "fatal"
                /\ UNCHANGED <<customers, key_order>>
           ELSE /\ pc' = pc
                /\ customers' = LoadRow(customers, row)
                /\ key_order' = LoadOrder(key_order, row)
    /\ UNCHANGED <<today, columns, config_model, args, contact_rows, contact_log, contact_info,
                   idx, overview_rows, action_rows, meta_map, snoozed_total,
                   cooldown_customers, locals, run,
                   first_out, probe>>

\* load_customers returns; build_alert_rows starts its loop
StartBuild ==
    /\ pc = "load"
    /\ run = 2 => idx > Len(ws)
    /\ pc' = "build"
    /\ idx' = 1
    /\ UNCHANGED <<today, columns, config_model, args, contact_rows, contact_log, contact_info, ws,
                   customers, key_order, overview_rows, action_rows, meta_map,
                   snoozed_total, cooldown_customers, locals, run,
                   first_out, probe>>

\* one iteration of "for stats in customers.values()"
BuildStep ==
    /\ pc = "build"
    /\ idx <= Len(key_order)
    /\ idx' = idx + 1
    /\ LET stats == customers[key_order[idx]]
           r == ScoreCustomer(stats, today, config_model, args)
           early == GlobalCooldown(r, args, today)
           no_reply == /\ LastContactDate(r.phone) # NoDate
                       /\ classify_reply_status(ContactStatus(r.phone)) = "false"
           in_cooldown == InCooldown(r, args, today)
           listed == /\ early = "go"
                     /\ IncludeInAction(r, args)
                     /\ ~no_reply
           snoozed == early = "snooze" \/ (listed /\ in_cooldown)
           appended == listed /\ (in_cooldown \/ PassesFilters(r, config_model, args, today))
       IN  IF SkipCustomer(stats)
           THEN UNCHANGED <<overview_rows, action_rows, meta_map, snoozed_total,
                            cooldown_customers, locals>>
           ELSE /\ locals' = r
                /\ overview_rows' = Append(overview_rows, OverviewRow(r))
                /\ meta_map' = [k \in (DOMAIN meta_map) \cup {stats.key} |->
                                    IF k = stats.key THEN MetaEntry(r) ELSE meta_map[k]]
                /\ snoozed_total' = IF snoozed THEN snoozed_total + 1 ELSE snoozed_total
                /\ cooldown_customers' =
                        IF snoozed
                        THEN [k \in (DOMAIN cooldown_customers) \cup {stats.key} |->
                                IF k = stats.key THEN LastContactDate(r.phone)
                                ELSE cooldown_customers[k]]
                        ELSE cooldown_customers
                /\ action_rows' =
                        IF appended
                        THEN Append(action_rows, ActionRow(r, CustomerList(r, in_cooldown)))
                        ELSE action_rows
    /\ UNCHANGED <<pc, today, columns, config_model, args, contact_rows, contact_log, contact_info, ws,
                   customers, key_order, run, first_out, probe>>

\* action_rows.sort(key=action_sort_key); return.  Back in main, a run that
\* produced no overview row ends in a RuntimeError and writes nothing.
SortRows ==
    /\ pc = "build"
    /\ idx > Len(key_order)
    /\ action_rows' \in SortResults(action_rows)
    /\ pc' = IF overview_rows = <<>> THEN "fatal" ELSE "done"
    /\ UNCHANGED <<today, columns, config_model, args, contact_rows, contact_log, contact_info, ws,
                   customers, key_order, idx, overview_rows, meta_map, snoozed_total,
                   cooldown_customers, locals, run,
                   first_out, probe>>

\* a second run of the program on the same sheet, config, contact log and today
Rerun ==
    /\ pc = "done" /\ run = 1
    /\ run' = 2
    /\ first_out' = Outputs
    /\ pc' = "load"
    /\ idx' = 1
    /\ customers' = <<>>
    /\ key_order' = <<>>
    /\ overview_rows' = <<>>
    /\ action_rows' = <<>>
    /\ meta_map' = <<>>
    /\ snoozed_total' = 0
    /\ cooldown_customers' = <<>>
    /\ locals' = NoLocals
    /\ UNCHANGED <<today, columns, config_model, args, contact_rows, contact_log, contact_info, ws,
                   probe>>

\* the second run reads the next row of the same sheet
ReplayRow ==
    /\ pc = "load" /\ run = 2
    /\ idx <= Len(ws)
    /\ customers' = LoadRow(customers, ws[idx])
    /\ key_order' = LoadOrder(key_order, ws[idx])
    /\ idx' = idx + 1
    /\ UNCHANGED <<pc, today, columns, config_model, args, contact_rows, contact_log, contact_info, ws,
                   overview_rows, action_rows, meta_map, snoozed_total,
                   cooldown_customers, locals, run,
                   first_out, probe>>

\* main reads the local contact-log sheet before it calls build_alert_rows
ReadContactLog ==
    /\ pc = "contacts"
    /\ LET loaded == load_contact_log_extended(contact_rows)
       IN  /\ contact_log' = loaded.contact_map
           /\ contact_info' = loaded.info_map
    /\ pc' = "load"
    /\ UNCHANGED <<today, columns, config_model, args, contact_rows, ws, customers,
                   key_order, idx, overview_rows, action_rows, meta_map,
                   snoozed_total, cooldown_customers, locals, run, first_out, probe>>

(***************************************************************************)
(* Directly applied functions                                              *)
(***************************************************************************)
NoProbe == [fn |-> "none"]

\* calculate_timing_boost applied to the drawn arguments
ApplyTimingBoost ==
    /\ pc = "probe" /\ probe.fn = "timing" /\ ~probe.done
    /\ probe' = [probe EXCEPT
                    !.done = TRUE,
                    !.result = calculate_timing_boost(probe.days_since, probe.cycle,
                                                      probe.stats, probe.return_rate,
                                                      config_model)]
    /\ UNCHANGED <<pc, today, columns, config_model, args, contact_rows, contact_log, contact_info, ws,
                   customers, key_order, idx, overview_rows, action_rows, meta_map,
                   snoozed_total, cooldown_customers, locals, run,
                   first_out>>

\* the threshold resolution of build_alert_rows applied to the drawn arguments
ApplyThresholds ==
    /\ pc = "probe" /\ probe.fn = "thresholds" /\ ~probe.done
    /\ LET long == LongTermThreshold(probe.churn_days, probe.churn_multiplier_t,
                                     probe.category_cycle_days, probe.cycle)
       IN  probe' = [probe EXCEPT
                        !.done = TRUE,
                        !.long_term_threshold = long,
                        !.short_term_threshold = ShortTermThreshold(long)]
    /\ UNCHANGED <<pc, today, columns, config_model, args, contact_rows, contact_log, contact_info, ws,
                   customers, key_order, idx, overview_rows, action_rows, meta_map,
                   snoozed_total, cooldown_customers, locals, run,
                   first_out>>

\* estimate_uplift applied to the drawn arguments
ApplyUplift ==
    /\ pc = "probe" /\ probe.fn = "uplift" /\ ~probe.done
    /\ probe' = [probe EXCEPT
                    !.done = TRUE,
                    !.result = estimate_uplift(probe.days_since, probe.threshold,
                                               config_model, probe.extra_ceiling_m,
                                               probe.orders, probe.return_rate,
                                               probe.aov)]
    /\ UNCHANGED <<pc, today, columns, config_model, args, contact_rows, contact_log,
                   contact_info, ws, customers, key_order, idx, overview_rows,
                   action_rows, meta_map, snoozed_total, cooldown_customers, locals,
                   run, first_out>>

\* the exchange penalty of two customers with the same number of exchange
\* lines and the drawn order counts
ApplyExchangePenalty ==
    /\ pc = "probe" /\ probe.fn = "exchange_penalty" /\ ~probe.done
    /\ probe' = [probe EXCEPT
                    !.done = TRUE,
                    !.result = ExchangePenalty(probe.orders, probe.exchange_count),
                    !.result_more = ExchangePenalty(probe.more_orders,
                                                    probe.exchange_count)]
    /\ UNCHANGED <<pc, today, columns, config_model, args, contact_rows, contact_log,
                   contact_info, ws, customers, key_order, idx, overview_rows,
                   action_rows, meta_map, snoozed_total, cooldown_customers, locals,
                   run, first_out>>

\* the CLV-tier boost for the drawn label and order count
ApplyClvBoost ==
    /\ pc = "probe" /\ probe.fn = "clv_boost" /\ ~probe.done
    /\ probe' = [probe EXCEPT
                    !.done = TRUE,
                    !.result = ClvBoost(probe.potential_label, probe.orders)]
    /\ UNCHANGED <<pc, today, columns, config_model, args, contact_rows, contact_log,
                   contact_info, ws, customers, key_order, idx, overview_rows,
                   action_rows, meta_map, snoozed_total, cooldown_customers, locals,
                   run, first_out>>

\* load_customers applied to the rows read so far in another order
LoadPermuted ==
    /\ pc = "load"
    /\ \E perm \in Permutations(1..Len(ws)) :
            probe' = [fn |-> "permuted", done |-> TRUE, perm |-> perm,
                      result |-> LoadAll([i \in 1..Len(ws) |-> ws[perm[i]]])]
    /\ pc' = "done"
    /\ UNCHANGED <<today, columns, config_model, args, contact_rows, contact_log,
                   contact_info, ws, customers, key_order, idx, overview_rows,
                   action_rows, meta_map, snoozed_total, cooldown_customers, locals,
                   run, first_out>>

\* compute_time_windows applied to the drawn order history
ApplyTimeWindows ==
    /\ pc = "probe" /\ probe.fn = "windows" /\ ~probe.done
    /\ probe' = [probe EXCEPT
                    !.done = TRUE,
                    !.result = compute_time_windows(probe.entries, today)]
    /\ UNCHANGED <<pc, today, columns, config_model, args, contact_rows, contact_log,
                   contact_info, ws, customers, key_order, idx, overview_rows,
                   action_rows, meta_map, snoozed_total, cooldown_customers, locals,
                   run, first_out>>

\* classify_customer_list applied to the drawn arguments
ApplyClassify ==
    /\ pc = "probe" /\ probe.fn = "classify" /\ ~probe.done
    /\ probe' = [probe EXCEPT
                    !.done = TRUE,
                    !.result = classify_customer_list(
                                    probe.orders, probe.return_rate,
                                    probe.potential_label, probe.days_since,
                                    probe.net_total, probe.tags,
                                    probe.priority_score_c,
                                    probe.long_term_threshold)]
    /\ UNCHANGED <<pc, today, columns, config_model, args, contact_rows, contact_log,
                   contact_info, ws, customers, key_order, idx, overview_rows,
                   action_rows, meta_map, snoozed_total, cooldown_customers, locals,
                   run, first_out>>

(***************************************************************************)
(* Inputs                                                                  *)
(***************************************************************************)
AllColumns == {"name", "phone", "address", "owner", "platform", "item", "status",
               "gross", "net", "cost", "refund_amount", "refund_status",
               "refund_type", "pay_date"}

\* the values ConfigModel falls back to when the JSON sets nothing
DefaultConfig ==
    [defaults |->
        [gross_margin_c |-> 30, category_cycle_days |-> 60,
         expected_return_rate_c |-> 8, touch_cost_c |-> 600,
         max_estimated_margin |-> 10000, max_estimated_uplift_m |-> 5000,
         uplift_base_m |-> 500, uplift_floor_m |-> 100, uplift_ceiling_m |-> 2000,
         uplift_ceiling_premium_m |-> 3500, uplift_premium_min_orders |-> 3,
         uplift_premium_max_return_c |-> 30, uplift_premium_min_days_span |-> 30],
     categories |-> <<>>,
     platform_touch_cost |-> <<>>,
     orders_dampening |-> [by_count |-> <<>>, default |-> <<>>],
     single_order_enabled |-> FALSE,
     single_order_mode |-> "previous_month",
     single_order_days |-> 30,
     priority_min_m |-> 0 - 50000,
     priority_max_m |-> 150000,
     timing_window_boost_config |->
        [enabled |-> TRUE, window_percentage_c |-> 20, peak_boost_c |-> 3000,
         min_orders |-> 2, max_return_rate_c |-> 0, gaussian_k_t |-> 20]]

\* the defaults of parse_arguments and of build_alert_rows
DefaultArgs ==
    [high_value_threshold |-> 1000, churn_days |-> 90, churn_multiplier_t |-> 15,
     drop_threshold_c |-> 50, anniversary_dates |-> <<>>, anniversary_window |-> 15,
     anniversary_only |-> FALSE, cooldown_days |-> 0, cooldown_scope |-> "action",
     exclude_recent_days |-> 30, allow_high_return |-> FALSE,
     today_dom |-> 15, prev_month_len |-> 30]

BaseRow ==
    [name |-> "Li", phone |-> "1380001", address |-> NoText, owner |-> NoText,
     platform |-> "album", item |-> "shoe", status |-> "paid", gross |-> Num(300),
     net |-> Blank, cost |-> Blank, refund_amount |-> Blank,
     refund_status |-> NoText, refund_type |-> NoText, pay_date |-> DateCell(960)]

\* the state in which the program, or a directly applied function, starts
InitState(pc0, p, t, cols, cfg, a, sheet, log, info) ==
    /\ pc = pc0
    /\ today = t
    /\ columns = cols
    /\ config_model = cfg
    /\ args = a
    /\ contact_rows = sheet
    /\ contact_log = log
    /\ contact_info = info
    /\ ws = <<>>
    /\ customers = <<>>
    /\ key_order = <<>>
    /\ idx = 1
    /\ overview_rows = <<>>
    /\ action_rows = <<>>
    /\ meta_map = <<>>
    /\ snoozed_total = 0
    /\ cooldown_customers = <<>>
    /\ locals = NoLocals
    /\ run = 1
    /\ first_out = NoOutputs
    /\ probe = p

InitWith(t, cols, cfg, a, log, info) ==
    InitState("load", NoProbe, t, cols, cfg, a, <<>>, log, info)

\* a run of main that reads a local contact-log sheet first
InitContacts(t, cfg, a, sheet) ==
    InitState("contacts", NoProbe, t, AllColumns, cfg, a, sheet, <<>>, <<>>)

InitProbe(cfg, p) ==
    InitState("probe", p, 1000, AllColumns, cfg, DefaultArgs, <<>>, <<>>, <<>>)

(***************************************************************************)
(* Spec: ingestion and scoring of a small sheet under several clamp bounds *)
(***************************************************************************)
MaxRows == 3

MainRows ==
    {BaseRow,
     [BaseRow EXCEPT !.pay_date = DateCell(900), !.gross = Num(600), !.cost = Num(200)],
     [BaseRow EXCEPT !.pay_date = DateCell(940), !.refund_type = "exchange"],
     [BaseRow EXCEPT !.status = "cancelled", !.refund_type = "refunded",
                     !.refund_amount = Num(300)],
     [BaseRow EXCEPT !.gross = Num(0)],
     [BaseRow EXCEPT !.status = "cancelled", !.refund_type = "exchange"],
     [BaseRow EXCEPT !.gross = Str(<<>>), !.refund_status = "refunded"],
     [BaseRow EXCEPT !.phone = "138-0001", !.pay_date = JunkDate,
                     !.gross = Str(<<105, 110>>), !.refund_status = "refunded"],
     [BaseRow EXCEPT !.name = "Wang", !.phone = NoText, !.pay_date = DateCell(700),
                     !.gross = Num(1200), !.platform = "dropship"],
     [BaseRow EXCEPT !.name = "Wang", !.phone = NoText,
                     !.refund_type = "cancel_refund"]}

MainConfigs ==
    {DefaultConfig,
     [DefaultConfig EXCEPT !.priority_min_m = 60000, !.priority_max_m = 20000],
     [DefaultConfig EXCEPT !.priority_max_m = 49999]}

Init ==
    \E cfg \in MainConfigs :
        InitWith(1000, AllColumns, cfg, DefaultArgs, <<>>, <<>>)

Next ==
    \/ ReadRow(MainRows, MaxRows)
    \/ StartBuild
    \/ BuildStep
    \/ SortRows

Spec == Init /\ [][Next]_vars

(***************************************************************************)
(* Properties of Spec                                                      *)
(***************************************************************************)
\* the customers of the sheet read so far, and the valid-order lines of one
\* of them that carry an exchange-type refund text
RowDetailRefundType(row) ==
    LET refund_type_raw == try_get(row, "refund_type")
    IN  IF refund_type_raw # NoText THEN refund_type_raw
        ELSE try_get(row, "refund_status")

ValidExchangeLines(key) ==
    Cardinality({i \in 1..Len(ws) :
                    /\ RowKey(ws[i]) = key
                    /\ RowGross(ws[i]) > 0
                    /\ ~HasCancel(RowStatus(ws[i]))
                    /\ ~HasCancel(RowRefundTypeText(ws[i]))
                    /\ RowDetailRefundType(ws[i]) # NoText
                    /\ HasExchange(Strip(RowDetailRefundType(ws[i])))})

ScoreWithinBounds(score_c) ==
    /\ priority_bounds(config_model).lower <= score_c * 10
    /\ score_c * 10 <= priority_bounds(config_model).upper

\* C1: every emitted customer's final priority_score lies in
\* [min(priority_min, priority_max), max(priority_min, priority_max)],
\* under any config and whatever the boosts and penalties add up to.
C1_ScoreWithinConfiguredBounds ==
    /\ \A i \in 1..Len(overview_rows) :
            ScoreWithinBounds(overview_rows[i].priority_score)
    /\ \A i \in 1..Len(action_rows) : ScoreWithinBounds(action_rows[i].priority_score)
    /\ \A k \in DOMAIN meta_map : ScoreWithinBounds(meta_map[k].priority_score)

RateInUnitInterval(rate) ==
    rate.def => (rate.d > 0 /\ 0 <= rate.n /\ rate.n <= rate.d)

\* C2: every defined return_rate in overview_rows, action_rows and meta_map
\* satisfies 0 <= return_rate <= 1, also when refund_count exceeds orders.
C2_ReturnRateInUnitInterval ==
    /\ \A i \in 1..Len(overview_rows) : RateInUnitInterval(overview_rows[i].return_rate)
    /\ \A i \in 1..Len(action_rows) : RateInUnitInterval(action_rows[i].return_rate)
    /\ \A k \in DOMAIN meta_map : RateInUnitInterval(meta_map[k].return_rate)

\* a customer with more refund events than valid orders has been emitted
C2_Witness ==
    \E i \in 1..Len(overview_rows) :
        /\ overview_rows[i].refund_count > overview_rows[i].orders
        /\ overview_rows[i].return_rate = Rate(1, 1)
        /\ overview_rows[i].key \in DOMAIN meta_map

\* the score of the last scored customer is base * weight plus every boost
\* and penalty, the exchange penalty among them
PenaltyInUnclampedScore ==
    locals.priority_score_unbounded =
        (locals.priority_score_pre_weight * locals.orders_weight) \div 100
        + 1000 * (locals.clv_boost + locals.return_rate_boost + locals.aov_boost
                  + locals.activity_boost + locals.platform_boost
                  + locals.high_freq_boost + locals.super_vip_boost
                  + locals.long_dormant_penalty + locals.exchange_penalty)
        + 10 * locals.timing_window_boost

\* C7: a customer with exactly 2 valid orders, 1 of them an exchange-type
\* line, has effective orders = 1 and exchange_penalty = -200, which is
\* added to the unclamped score.
C7_TwoOrdersOneExchange ==
    (/\ locals # NoLocals
     /\ locals.orders = 2
     /\ ValidExchangeLines(locals.key) = 1)
        => /\ locals.effective_orders = 1
           /\ locals.exchange_penalty = 0 - 200
           /\ PenaltyInUnclampedScore

\* the claim's own reading of a cancellation row
C9_IsCancellationRow(row) ==
    \/ HasCancel(RowStatus(row))
    \/ HasCancel(RowRefundTypeText(row))
    \/ RowGross(row) <= 0

\* the order aggregates that a cancellation row must leave alone
OrderAggregates(stats) ==
    <<stats.orders, stats.gross_total, stats.net_total, stats.cost_total,
      stats.profit_total, stats.items, stats.owners, stats.platforms,
      stats.first_order, stats.last_order, stats.order_history>>

StatsBefore(row) ==
    IF RowKey(row) \in DOMAIN customers THEN customers[RowKey(row)]
    ELSE CustomerStats(RowKey(row))

CancellationRowRead ==
    /\ Len(ws') = Len(ws) + 1
    /\ C9_IsCancellationRow(ws'[Len(ws')])

MaxChurnDays == 4

ProbeCycles == {NoCycle, Rate(1, 1), Rate(3, 2), Rate(7, 2), Rate(40, 1)}

InitThresholds ==
    \E churn_days \in (0..MaxChurnDays) \cup {90},
       churn_multiplier_t \in {0, 5, 10, 15, 20},
       category_cycle_days \in {0, 1, 2, 60},
       cycle \in ProbeCycles :
        InitProbe(DefaultConfig,
                  [fn |-> "thresholds", done |-> FALSE,
                   churn_days |-> churn_days,
                   churn_multiplier_t |-> churn_multiplier_t,
                   category_cycle_days |-> category_cycle_days,
                   cycle |-> cycle,
                   long_term_threshold |-> 0, short_term_threshold |-> 0])

NextThresholds == ApplyThresholds

SpecThresholds == InitThresholds /\ [][NextThresholds]_vars

\* C4: whenever long_term_threshold > 1 the short_term_threshold is strictly
\* less than it, and the short_term_threshold is at least 1, for every
\* churn_days, churn_multiplier, category cycle and personal cycle.
C4_ShortBelowLong ==
    (probe.fn = "thresholds" /\ probe.done)
        => /\ probe.short_term_threshold >= 1
           /\ probe.long_term_threshold > 1
                => probe.short_term_threshold < probe.long_term_threshold

\* thresholds were resolved to 2 and 1: the smallest long threshold above 1
C4_Witness ==
    /\ probe.fn = "thresholds" /\ probe.done
    /\ probe.long_term_threshold = 2
    /\ probe.short_term_threshold = 1
    /\ probe.cycle.def

\* the three candidates as the sentence names them, and as the code floors them
CategoryCandidate == CeilDiv(probe.category_cycle_days * probe.churn_multiplier_t, 10)

PersonalCandidate == CeilDiv(probe.cycle.n * probe.churn_multiplier_t, probe.cycle.d * 10)

FlooredCategoryCandidate ==
    Max(1, CeilDiv(Max(1, probe.category_cycle_days) * probe.churn_multiplier_t, 10))

ThresholdsResolved == probe.fn = "thresholds" /\ probe.done

NeverBelowCandidates ==
    /\ probe.long_term_threshold >= 1
    /\ probe.long_term_threshold >= probe.churn_days
    /\ probe.long_term_threshold >= CategoryCandidate
    /\ probe.cycle.def => probe.long_term_threshold >= PersonalCandidate

MaxDays == 60

\* a customer with the given number of valid orders, one detail line each,
\* the first exchange_lines of them exchange-type
ProbeStats(orders, exchange_lines) ==
    [CustomerStats("probe") EXCEPT
        !.orders = orders,
        !.order_details =
            [i \in 1..orders |->
                [refund_type |-> IF i <= exchange_lines THEN "exchange" ELSE "",
                 order_date |-> 900, gross |-> 300, net |-> 300]]]

TimingConfigs ==
    {[DefaultConfig EXCEPT !.timing_window_boost_config =
        [enabled |-> en, window_percentage_c |-> 20, peak_boost_c |-> peak,
         min_orders |-> 2, max_return_rate_c |-> 0, gaussian_k_t |-> k]] :
        en \in BOOLEAN, peak \in {3000, 500, 3}, k \in {5, 20, 120}}

InitTiming ==
    \E cfg \in TimingConfigs,
       days_since \in (0..MaxDays) \cup {NoDays},
       cycle \in {NoCycle, Rate(40, 1), Rate(81, 2), Rate(20, 1)},
       stats \in {ProbeStats(1, 0), ProbeStats(3, 0), ProbeStats(3, 1)},
       return_rate \in {NoRate, Rate(0, 3), Rate(1, 3)} :
        InitProbe(cfg,
                  [fn |-> "timing", done |-> FALSE, days_since |-> days_since,
                   cycle |-> cycle, stats |-> stats, return_rate |-> return_rate,
                   result |-> 0])

NextTiming == ApplyTimingBoost

SpecTiming == InitTiming /\ [][NextTiming]_vars

TimingParams == config_model.timing_window_boost_config

\* days_since lies in [cycle * (1 - w), cycle * (1 + w)]
InsideTimingWindow ==
    /\ probe.days_since # NoDays /\ probe.cycle.def
    /\ probe.cycle.n * (100 - TimingParams.window_percentage_c)
            <= probe.days_since * probe.cycle.d * 100
    /\ probe.days_since * probe.cycle.d * 100
            <= probe.cycle.n * (100 + TimingParams.window_percentage_c)

\* the customer passes every eligibility check of the timing boost
QualifiesForTiming ==
    /\ TimingParams.enabled
    /\ probe.stats.orders >= TimingParams.min_orders
    /\ \A i \in 1..Len(probe.stats.order_details) :
            probe.stats.order_details[i].refund_type # "exchange"
    /\ probe.return_rate.def
            => probe.return_rate.n * 100
                    <= TimingParams.max_return_rate_c * probe.return_rate.d

TimingZeroOutside ==
    (probe.days_since # NoDays /\ probe.cycle.def /\ ~InsideTimingWindow)
        => probe.result = 0

TimingPeakAtCenter ==
    (QualifiesForTiming /\ probe.cycle.def
     /\ probe.days_since * probe.cycle.d = probe.cycle.n)
        => probe.result = TimingParams.peak_boost_c

MaxCooldownRows == 2

CooldownRows ==
    {BaseRow,
     [BaseRow EXCEPT !.pay_date = DateCell(990)],
     [BaseRow EXCEPT !.status = "cancelled", !.refund_type = "refunded",
                     !.refund_amount = Num(300)],
     [BaseRow EXCEPT !.phone = "138-0001", !.pay_date = JunkDate,
                     !.gross = Str(<<105, 110>>), !.refund_status = "refunded"],
     [BaseRow EXCEPT !.name = "Wang", !.phone = NoText, !.pay_date = DateCell(700),
                     !.gross = Num(1200), !.platform = "dropship"],
     [BaseRow EXCEPT !.name = "Zhao", !.phone = "1390002", !.pay_date = DateCell(600)],
     [BaseRow EXCEPT !.name = "Zhao", !.phone = "1390002", !.gross = Num(0),
                     !.refund_status = "refunded"]}

LoggedPhones == {"1380001", "1390002"}

\* contact logs: none, a contact 3 days ago, a contact 10 days ago
CooldownLogs ==
    {<<>>, [p \in LoggedPhones |-> 997], [p \in LoggedPhones |-> 990]}

CooldownInfos ==
    {<<>>, [p \in LoggedPhones |-> [status |-> "no_reply"]],
     [p \in LoggedPhones |-> [status |-> "replied"]]}

InitCooldown ==
    \E days \in {0, 7}, scope \in {"action", "all"},
       log \in CooldownLogs, info \in CooldownInfos :
        InitWith(1000, AllColumns, DefaultConfig,
                 [DefaultArgs EXCEPT !.cooldown_days = days, !.cooldown_scope = scope],
                 log, info)

NextCooldown ==
    \/ ReadRow(CooldownRows, MaxCooldownRows)
    \/ StartBuild
    \/ BuildStep
    \/ SortRows

SpecCooldown == InitCooldown /\ [][NextCooldown]_vars

EmittedKeys ==
    {overview_rows[i].key : i \in 1..Len(overview_rows)}
        \cup {action_rows[i].detail_key : i \in 1..Len(action_rows)}
        \cup DOMAIN meta_map

AllRowsCancelled(key) ==
    /\ \E i \in 1..Len(ws) : RowKey(ws[i]) = key
    /\ \A i \in 1..Len(ws) : RowKey(ws[i]) = key => C9_IsCancellationRow(ws[i])

\* C3: a customer identity whose rows are all cancellations never appears in
\* overview_rows, action_rows or meta_map, whatever the refund events, the
\* contact log and the cooldown settings are.
C3_ZeroOrderCustomersNotEmitted ==
    \A key \in DOMAIN customers : AllRowsCancelled(key) => key \notin EmittedKeys

\* build_alert_rows has returned (main ends in its RuntimeError when nothing
\* at all was emitted); a customer with only cancellation rows, a refund
\* event and a contact inside an active cooldown window was passed over
C3_Witness ==
    /\ pc \in {"done", "fatal"}
    /\ idx > Len(key_order)
    /\ args.cooldown_days = 7
    /\ \E key \in DOMAIN customers :
        /\ AllRowsCancelled(key)
        /\ customers[key].refund_count > 0
        /\ customers[key].cancel_count = 2
        /\ customers[key].phone \in DOMAIN contact_log
        /\ today - contact_log[customers[key].phone] < 7
        /\ key \notin EmittedKeys

\* the customer's last contact was fewer than cooldown_days days ago
ContactedWithinCooldown(stats) ==
    /\ stats.phone \in DOMAIN contact_log
    /\ today - contact_log[stats.phone] >= 0
    /\ today - contact_log[stats.phone] < args.cooldown_days

ListedAs(key, list) ==
    \E i \in 1..Len(action_rows) :
        /\ action_rows[i].detail_key = key
        /\ action_rows[i].customer_list = list

MeetsInclusionTrigger(stats) ==
    LET r == ScoreCustomer(stats, today, config_model, args)
    IN  \/ r.tags # <<>>
        \/ r.potential_label \in {"star", "potential"}
        \/ r.priority_score >= 5000
        \/ r.orders >= 5
        \/ r.growth_type \in {"growing", "high_potential_new"}

LatestContactIsNoReply(stats) ==
    /\ stats.phone \in DOMAIN contact_info
    /\ contact_info[stats.phone].status \in {"no_reply", "refused", "replied_then_no_reply"}

ContactedScoredKeys ==
    {key \in DOMAIN customers :
        key \in DOMAIN meta_map /\ ContactedWithinCooldown(customers[key])}

HasOverviewRow(key) == \E i \in 1..Len(overview_rows) : overview_rows[i].key = key

HasActionRow(key) == \E i \in 1..Len(action_rows) : action_rows[i].detail_key = key

\* C12 as stated: with scope "all" and cooldown_days > 0 no action row carries
\* the cooldown list, and every scored customer contacted inside the window
\* has no action row, has an overview row and a meta entry, and is counted in
\* snoozed_total.
C12_GlobalScopeRemovesAndCounts ==
    (pc \in {"build", "done"} /\ args.cooldown_scope = "all" /\ args.cooldown_days > 0)
        => /\ \A i \in 1..Len(action_rows) : action_rows[i].customer_list # "cooldown"
           /\ \A key \in ContactedScoredKeys : ~HasActionRow(key) /\ HasOverviewRow(key)
           /\ snoozed_total = Cardinality(ContactedScoredKeys)

\* C12 (amended): as above, but snoozed_total and cooldown_customers count the
\* contacted customers whose contact status is not a no-reply; a no-reply
\* customer is removed without being counted.
C12_GlobalScopeRemovesCountsReplied ==
    (pc \in {"build", "done"} /\ args.cooldown_scope = "all" /\ args.cooldown_days > 0)
        => /\ \A i \in 1..Len(action_rows) : action_rows[i].customer_list # "cooldown"
           /\ \A key \in ContactedScoredKeys : ~HasActionRow(key) /\ HasOverviewRow(key)
           /\ LET counted == {key \in ContactedScoredKeys :
                                ~LatestContactIsNoReply(customers[key])}
              IN  /\ snoozed_total = Cardinality(counted)
                  /\ DOMAIN cooldown_customers = counted

\* scope "all", 7 days, contacted 3 days ago: a customer who meets a trigger
\* and would pass every filter is scored, snoozed and not listed
C12_Witness ==
    /\ pc = "done" /\ args.cooldown_scope = "all" /\ args.cooldown_days = 7
    /\ snoozed_total = 1
    /\ action_rows = <<>>
    /\ \E key \in ContactedScoredKeys :
        /\ MeetsInclusionTrigger(customers[key])
        /\ today - customers[key].last_order >= args.exclude_recent_days
        /\ HasOverviewRow(key)

(***************************************************************************)
(* SpecVIP: one customer with a long order history                         *)
(***************************************************************************)
\* the sheet opens with VipPrefix plain orders and has at most MaxVipRows rows
VipPrefix == 9

MaxVipRows == 12

VipOrder == [BaseRow EXCEPT !.pay_date = DateCell(900)]

VipRows ==
    {VipOrder,
     [BaseRow EXCEPT !.pay_date = DateCell(960), !.refund_status = "refunded"],
     [BaseRow EXCEPT !.pay_date = DateCell(960), !.refund_type = "exchange"],
     [BaseRow EXCEPT !.status = "cancelled", !.gross = Num(2000),
                     !.refund_amount = Num(2000)]}

\* the rows the sheet may continue with
VipRowChoices == IF Len(ws) < VipPrefix THEN {VipOrder} ELSE VipRows

InitVIP ==
    \E t \in {1000, 970},
       a \in {DefaultArgs, [DefaultArgs EXCEPT !.cooldown_days = 7]},
       log \in {<<>>, [p \in {"1380001"} |-> 967]} :
        InitWith(t, AllColumns, DefaultConfig, a, log, <<>>)

NextVIP ==
    \/ ReadRow(VipRowChoices, MaxVipRows)
    \/ StartBuild
    \/ BuildStep
    \/ SortRows

SpecVIP == InitVIP /\ [][NextVIP]_vars

NoExchangeLines(key) ==
    \A i \in 1..Len(ws) :
        RowKey(ws[i]) = key =>
            (RowDetailRefundType(ws[i]) = NoText
             \/ ~HasExchange(Strip(RowDetailRefundType(ws[i]))))

\* the action row is of a customer with 10 valid orders, return rate 0.1 and
\* no exchange-type line
ScenarioARow(row) ==
    /\ row.orders = 10
    /\ row.return_rate = Rate(1, 10)
    /\ NoExchangeLines(row.detail_key)

ScenarioABoost ==
    (/\ locals # NoLocals
     /\ locals.orders = 10
     /\ locals.return_rate = Rate(1, 10)
     /\ NoExchangeLines(locals.key))
        => locals.super_vip_boost = 80

BuildReturned ==
    /\ pc \in {"done", "fatal"}
    /\ idx > Len(key_order)
    /\ Len(key_order) = Cardinality(DOMAIN customers)

OverviewRowsOf(key) == {i \in 1..Len(overview_rows) : overview_rows[i].key = key}

\* C30: what build_alert_rows returns is consistent: one overview row for each
\* customer with at least one valid order and none for anybody else, meta_map
\* keyed by exactly the keys of overview_rows, each action row's detail_key a
\* key of meta_map carrying the same priority_score, no two action rows of the
\* same customer, and snoozed_total the number of entries of cooldown_customers.
C30_OutputsConsistent ==
    BuildReturned =>
        /\ \A key \in DOMAIN customers :
                Cardinality(OverviewRowsOf(key)) = (IF customers[key].orders >= 1 THEN 1 ELSE 0)
        /\ \A i \in 1..Len(overview_rows) : overview_rows[i].key \in DOMAIN customers
        /\ DOMAIN meta_map = {overview_rows[i].key : i \in 1..Len(overview_rows)}
        /\ \A i \in 1..Len(action_rows) :
                /\ action_rows[i].detail_key \in DOMAIN meta_map
                /\ meta_map[action_rows[i].detail_key].priority_score
                        = action_rows[i].priority_score
        /\ \A i, j \in 1..Len(action_rows) :
                action_rows[i].detail_key = action_rows[j].detail_key => i = j
        /\ snoozed_total = Cardinality(DOMAIN cooldown_customers)

\* two customers, one with only a cancellation row; the other was contacted
\* three days ago, is counted as snoozed and is listed under the cooldown list
C30_Witness ==
    /\ BuildReturned /\ pc = "done"
    /\ Cardinality(DOMAIN customers) = 2
    /\ \E key \in DOMAIN customers : customers[key].orders = 0
    /\ Len(overview_rows) = 1
    /\ Len(action_rows) = 1
    /\ action_rows[1].detail_key = overview_rows[1].key
    /\ snoozed_total = 1
    /\ DOMAIN cooldown_customers = {overview_rows[1].key}

(***************************************************************************)
(* SpecTwin: the program run twice on the same sheet, config, contact log  *)
(* and today                                                               *)
(***************************************************************************)
MaxTwinRows == 3

TwinRows ==
    {BaseRow,
     [BaseRow EXCEPT !.name = "Wang", !.phone = NoText, !.pay_date = DateCell(760),
                     !.gross = Num(1200), !.platform = "dropship"],
     [BaseRow EXCEPT !.name = "Zhao", !.phone = NoText, !.pay_date = DateCell(760),
                     !.gross = Num(1200), !.platform = "dropship"],
     [BaseRow EXCEPT !.name = "Zhao", !.phone = "1390002", !.pay_date = DateCell(940),
                     !.refund_type = "exchange"]}

InitTwin ==
    \E log \in {<<>>, [p \in {"1380001"} |-> 997]} :
        InitWith(1000, AllColumns, DefaultConfig,
                 [DefaultArgs EXCEPT !.cooldown_days = 7], log, <<>>)

NextTwin ==
    \/ ReadRow(TwinRows, MaxTwinRows)
    \/ StartBuild
    \/ BuildStep
    \/ SortRows
    \/ Rerun
    \/ ReplayRow

SpecTwin == InitTwin /\ [][NextTwin]_vars

MaxContactRows == 2

MaxContactOrders == 2

ContactLogRow(phone, date, status) == [phone |-> phone, date |-> date, status |-> status]

\* entries of one customer: 3 or 10 days ago, tagged or not, one undated
ContactLogRows ==
    {ContactLogRow("1380001", DateCell(997), "no_reply"),
     ContactLogRow("1380001", DateCell(997), "replied"),
     ContactLogRow("1380001", DateCell(990), "no_reply"),
     ContactLogRow("1380001", DateCell(990), "replied"),
     ContactLogRow("1380001", DateCell(997), NoText),
     ContactLogRow("138-0001", JunkDate, "no_reply")}

ContactSheets == UNION {[1..n -> ContactLogRows] : n \in 0..MaxContactRows}

ContactOrders ==
    {BaseRow,
     [BaseRow EXCEPT !.pay_date = DateCell(900), !.gross = Num(600)],
     [BaseRow EXCEPT !.name = "Zhao", !.phone = "1390002"]}

InitContactsRun ==
    \E days \in {0, 7}, scope \in {"action", "all"}, sheet \in ContactSheets :
        InitContacts(1000, DefaultConfig,
                     [DefaultArgs EXCEPT !.cooldown_days = days,
                                         !.cooldown_scope = scope],
                     sheet)

NextContacts ==
    \/ ReadContactLog
    \/ ReadRow(ContactOrders, MaxContactOrders)
    \/ StartBuild
    \/ BuildStep
    \/ SortRows

SpecContacts == InitContactsRun /\ [][NextContacts]_vars

\* the dated entries of a phone in the sheet, and the latest-dated among them
DatedEntries(phone) ==
    {i \in 1..Len(contact_rows) :
        /\ deduplicate_phone(contact_rows[i].phone) = phone
        /\ parse_excel_date(contact_rows[i].date) # NoDate}

LatestEntries(phone) ==
    {i \in DatedEntries(phone) :
        \A j \in DatedEntries(phone) :
            parse_excel_date(contact_rows[j].date)
                <= parse_excel_date(contact_rows[i].date)}

EntryTaggedNoReply(i) ==
    /\ Truthy(contact_rows[i].status)
    /\ classify_reply_status(Strip(contact_rows[i].status)) = "false"

LatestEntryTaggedNoReply(phone) ==
    /\ Truthy(phone)
    /\ LatestEntries(phone) # {}
    /\ \A i \in LatestEntries(phone) : EntryTaggedNoReply(i)

\* C11: a customer whose latest-dated contact-log entry is tagged no-reply has
\* no action row, under every cooldown setting, and still has its overview
\* row and meta entry once the run is done.
C11_LatestNoReplyNeverListed ==
    pc # "contacts" =>
        \A key \in DOMAIN customers :
            LatestEntryTaggedNoReply(customers[key].phone) =>
                /\ \A i \in 1..Len(action_rows) : action_rows[i].detail_key # key
                /\ (pc = "done" /\ customers[key].orders > 0) =>
                        /\ \E i \in 1..Len(overview_rows) : overview_rows[i].key = key
                        /\ key \in DOMAIN meta_map

(***************************************************************************)
(* SpecSort: three customers; under the second config all scores tie       *)
(***************************************************************************)
MaxSortRows == 3

SortCustomers ==
    {BaseRow,
     [BaseRow EXCEPT !.name = "Zhao", !.phone = "1390002"],
     [BaseRow EXCEPT !.name = "Wang", !.phone = NoText]}

\* per customer: a plain order, a larger one, one with a refund marker
SortSheetRows ==
    UNION {{c, [c EXCEPT !.gross = Num(600)], [c EXCEPT !.refund_status = "refunded"]}
            : c \in SortCustomers}

InitSort ==
    \E cfg \in {DefaultConfig, [DefaultConfig EXCEPT !.priority_max_m = 0 - 50000]} :
        InitWith(1000, AllColumns, cfg,
                 [DefaultArgs EXCEPT !.allow_high_return = TRUE], <<>>, <<>>)

NextSort ==
    \/ ReadRow(SortSheetRows, MaxSortRows)
    \/ StartBuild
    \/ BuildStep
    \/ SortRows

SpecSort == InitSort /\ [][NextSort]_vars

\* a's return rate is not above b's; an unknown rate is above every known one
RateNotAbove(x, y) ==
    IF ~y.def THEN TRUE
    ELSE IF ~x.def THEN FALSE
    ELSE x.n * y.d <= y.n * x.d

SameRate(x, y) == RateNotAbove(x, y) /\ RateNotAbove(y, x)

AdjacentInOrder(a, b) ==
    /\ a.priority_score >= b.priority_score
    /\ a.priority_score = b.priority_score => a.orders >= b.orders
    /\ (a.priority_score = b.priority_score /\ a.orders = b.orders)
            => RateNotAbove(a.return_rate, b.return_rate)
    /\ (/\ a.priority_score = b.priority_score /\ a.orders = b.orders
        /\ SameRate(a.return_rate, b.return_rate))
            => a.aov.n * b.aov.d >= b.aov.n * a.aov.d

\* C13: in the returned action_rows every adjacent pair is in order: score
\* descending, then orders descending, then return rate ascending (unknown
\* last), then average order value descending.
C13_ActionRowsOrdered ==
    pc = "done" =>
        \A i \in 1..(Len(action_rows) - 1) :
            AdjacentInOrder(action_rows[i], action_rows[i + 1])

\* three customers tie on the score and on the order count; the one with the
\* higher return rate was read first and is returned last
C13_Witness ==
    /\ pc = "done"
    /\ Len(action_rows) = 3
    /\ action_rows[1].priority_score = action_rows[3].priority_score
    /\ action_rows[2].orders = action_rows[3].orders
    /\ ~SameRate(action_rows[2].return_rate, action_rows[3].return_rate)
    /\ key_order[1] = action_rows[3].detail_key

(***************************************************************************)
(* SpecFilters: the eligibility filters under every policy setting         *)
(***************************************************************************)
MaxFilterRows == 2

FilterRows ==
    {BaseRow,
     [BaseRow EXCEPT !.pay_date = DateCell(990)],
     [BaseRow EXCEPT !.pay_date = DateCell(900), !.gross = Num(600)],
     [BaseRow EXCEPT !.pay_date = DateCell(700), !.gross = Num(1200)],
     [BaseRow EXCEPT !.refund_status = "refunded"],
     [BaseRow EXCEPT !.pay_date = JunkDate],
     [BaseRow EXCEPT !.name = "Zhao", !.phone = "1390002", !.pay_date = DateCell(990),
                     !.gross = Num(600)]}

\* the single-order policy: off, last order in the previous calendar month,
\* last order within the last 30 days
FilterConfigs ==
    {DefaultConfig,
     [DefaultConfig EXCEPT !.single_order_enabled = TRUE],
     [DefaultConfig EXCEPT !.single_order_enabled = TRUE, !.single_order_mode = "days"]}

InitFilters ==
    \E cfg \in FilterConfigs, recent \in {0, 30}, high \in BOOLEAN, days \in {0, 7} :
        InitWith(1000, AllColumns, cfg,
                 [DefaultArgs EXCEPT !.exclude_recent_days = recent,
                                     !.allow_high_return = high,
                                     !.cooldown_days = days],
                 [p \in {"1390002"} |-> 997], <<>>)

NextFilters ==
    \/ ReadRow(FilterRows, MaxFilterRows)
    \/ StartBuild
    \/ BuildStep
    \/ SortRows

SpecFilters == InitFilters /\ [][NextFilters]_vars

MaxListOrders == 7

InitLists ==
    \E orders \in 1..MaxListOrders,
       return_rate \in {NoRate, Rate(0, 1), Rate(1, 5), Rate(9, 20), Rate(1, 2)},
       potential_label \in {"star", "normal"},
       days_since \in {NoDays, 45, 90, 270, 271},
       net_total \in {500, 1000, 2000},
       tags \in {<<>>, <<"refund_spike">>, <<"churn_risk">>},
       priority_score_c \in {4999, 5000, 20000} :
        InitProbe(DefaultConfig,
                  [fn |-> "classify", done |-> FALSE, result |-> "",
                   orders |-> orders, return_rate |-> return_rate,
                   potential_label |-> potential_label, days_since |-> days_since,
                   net_total |-> net_total, tags |-> tags,
                   priority_score_c |-> priority_score_c,
                   long_term_threshold |-> 90])

NextLists == ApplyClassify

SpecLists == InitLists /\ [][NextLists]_vars

\* the rules of the four lists over the drawn arguments
RateBelow(rate, hundredths) == ~rate.def \/ rate.n * 100 < hundredths * rate.d

HighRiskRule ==
    \/ \E i \in 1..Len(probe.tags) : probe.tags[i] = "refund_spike"
    \/ /\ probe.return_rate.def
       /\ probe.return_rate.n * 100 > 40 * probe.return_rate.d
       /\ probe.priority_score_c >= 5000

SuperVipRule ==
    \/ probe.orders >= 7 /\ RateBelow(probe.return_rate, 20)
    \/ probe.net_total >= 2000 /\ probe.orders >= 5 /\ RateBelow(probe.return_rate, 25)
    \/ probe.priority_score_c >= 20000 /\ probe.orders >= 5
    \/ probe.potential_label = "star" /\ probe.orders >= 5

NurtureRule ==
    /\ probe.days_since # NoDays /\ probe.days_since < 90
    /\ probe.orders >= 2
    /\ RateBelow(probe.return_rate, 30)

AtRiskRule ==
    /\ probe.days_since # NoDays /\ probe.days_since >= 90
    /\ probe.days_since <= 3 * probe.long_term_threshold
    /\ (probe.orders >= 3 \/ probe.net_total >= 1000)
    /\ RateBelow(probe.return_rate, 50)

\* C15: first match wins, in the order high-risk, super VIP, nurture, at-risk:
\* a refund-spike tag, or a return rate above 0.4 with a score of at least 50,
\* gives high-risk even when a super-VIP rule holds; the result is one of the
\* four lists; at-risk is assigned only for idle days in [90, 3 x threshold].
C15_FirstMatchWins ==
    (probe.fn = "classify" /\ probe.done) =>
        /\ probe.result \in {"high_risk", "super_vip", "nurture", "at_risk"}
        /\ HighRiskRule <=> probe.result = "high_risk"
        /\ (~HighRiskRule /\ SuperVipRule) <=> probe.result = "super_vip"
        /\ (~HighRiskRule /\ ~SuperVipRule /\ NurtureRule) => probe.result = "nurture"
        /\ probe.result = "at_risk" =>
                /\ ~HighRiskRule /\ ~SuperVipRule /\ ~NurtureRule /\ AtRiskRule
                /\ probe.days_since >= 90
                /\ probe.days_since <= 3 * probe.long_term_threshold

\* 7 orders, no refund, a refund-spike tag: a super-VIP rule holds and the
\* customer is on the high-risk list
C15_Witness ==
    /\ probe.fn = "classify" /\ probe.done
    /\ probe.orders = 7 /\ probe.return_rate = Rate(0, 1)
    /\ probe.tags = <<"refund_spike">>
    /\ SuperVipRule
    /\ probe.result = "high_risk"

(***************************************************************************)
(* SpecIngest: load_customers over rows with refunds and bad fields        *)
(***************************************************************************)
MaxIngestRows == 3

IngestRows ==
    {BaseRow,
     [BaseRow EXCEPT !.net = Num(250), !.refund_amount = Num(50)],
     [BaseRow EXCEPT !.refund_status = "refunded"],
     [BaseRow EXCEPT !.status = "cancelled", !.refund_type = "refunded",
                     !.refund_amount = Num(300)],
     [BaseRow EXCEPT !.gross = Str(<<>>), !.pay_date = JunkDate],
     [BaseRow EXCEPT !.pay_date = JunkDate, !.item = NoText, !.platform = NoText],
     [BaseRow EXCEPT !.name = "Zhao", !.phone = "1390002", !.gross = Num(600)],
     [BaseRow EXCEPT !.name = "Wang", !.phone = NoText],
     [BaseRow EXCEPT !.item = NumberCell]}

InitIngest == InitWith(1000, AllColumns, DefaultConfig, DefaultArgs, <<>>, <<>>)

NextIngest == ReadRow(IngestRows, MaxIngestRows)

SpecIngest == InitIngest /\ [][NextIngest]_vars

RowRead == Len(ws') = Len(ws) + 1

\* the valid-order totals of a customer
ValidOrderTotals(stats) ==
    <<stats.orders, stats.gross_total, stats.net_total, stats.cost_total,
      stats.profit_total, stats.order_history, stats.first_order, stats.last_order>>

\* register_cancellation and register_refund applied to the stats leave the
\* valid-order totals as they are
RegistrationsKeepTotals(stats) ==
    /\ ValidOrderTotals(register_cancellation(stats)) = ValidOrderTotals(stats)
    /\ \A amount \in {0, 50} :
            ValidOrderTotals(register_refund(stats, amount, TRUE))
                = ValidOrderTotals(stats)

\* C16 as stated: register_cancellation and register_refund leave the
\* valid-order totals unchanged, and a row that is a refund event adds
\* nothing to them.
C16_RefundRowsAddNothing ==
    [][(RowRead /\ pc' # "fatal") =>
        LET row == ws'[Len(ws')]
            old == StatsBefore(row)
            new == customers'[RowKey(row)]
        IN  /\ RegistrationsKeepTotals(new)
            /\ IsRefundEvent(row) => ValidOrderTotals(new) = ValidOrderTotals(old)]_vars

\* C16 (amended): the two registrations leave the valid-order totals
\* unchanged; a cancellation row adds nothing to them, refund or not; a valid
\* order adds one order and its own gross, net, cost and profit, and a refund
\* amount or marker on it takes nothing off.
C16_RefundsTakeNothingOff ==
    [][(RowRead /\ pc' # "fatal") =>
        LET row == ws'[Len(ws')]
            old == StatsBefore(row)
            new == customers'[RowKey(row)]
        IN  /\ RegistrationsKeepTotals(new)
            /\ C9_IsCancellationRow(row) =>
                    ValidOrderTotals(new) = ValidOrderTotals(old)
            /\ ~C9_IsCancellationRow(row) =>
                    /\ new.orders = old.orders + 1
                    /\ new.gross_total = old.gross_total + RowGross(row)
                    /\ new.net_total = old.net_total + RowNet(row)
                    /\ new.cost_total = old.cost_total + RowCost(row)
                    /\ new.profit_total = old.profit_total + RowProfit(row)]_vars

\* a valid order of 300 with net 250 and a refund of 50 was read after a
\* cancelled row with a refund of 300: one order, net total 250, two refunds
C16_Witness ==
    /\ Len(ws) = 2
    /\ C9_IsCancellationRow(ws[1]) /\ ws[1].refund_amount = Num(300)
    /\ ws[2].refund_amount = Num(50) /\ ~C9_IsCancellationRow(ws[2])
    /\ customers["1380001"].orders = 1
    /\ customers["1380001"].gross_total = 300
    /\ customers["1380001"].net_total = 250
    /\ customers["1380001"].refund_count = 2
    /\ customers["1380001"].refund_amount = 350

\* C17: reading one row changes only the CustomerStats of the row's key, never
\* ends the run, and puts 0, no date and the empty string in the place of a
\* malformed amount, an unparseable date and a missing refund text.
C17_RowTouchesOwnKeyOnly ==
    [][RowRead =>
        /\ pc' # "fatal"
        /\ LET row == ws'[Len(ws')]
               key == RowKey(row)
           IN  /\ DOMAIN customers' = (DOMAIN customers) \cup {key}
               /\ \A k \in DOMAIN customers : k # key => customers'[k] = customers[k]
               /\ LET details == customers'[key].order_details
                      detail == details[Len(details)]
                  IN  /\ Len(details) = Len(StatsBefore(row).order_details) + 1
                      /\ row.gross.k = "str" /\ row.gross.toks = <<>> => detail.gross = 0
                      /\ row.pay_date = JunkDate => detail.order_date = NoDate
                      /\ (row.refund_type = NoText /\ row.refund_status = NoText)
                            => detail.refund_type = ""]_vars

\* the refund test as the sentence gives it, on the cells of the row
StatedRefundRow(row) ==
    \/ to_float(row.refund_amount) > 0
    \/ row.refund_status \in {"refunded", "refund_exchange", "cancel_refund"}
    \/ row.refund_type \in {"refunded", "refund_exchange", "cancel_refund"}

\* C27: a row with a refund amount > 0 or a refund marker in its refund-status
\* or refund-type text adds one to refund_count, and its amount to
\* refund_amount when > 0, whether it is a valid order or a cancellation; any
\* other row leaves both alone; every row adds one detail line, so that
\* len(order_details) = orders + cancel_count for each customer.
C27_RefundCheckIndependent ==
    [][(RowRead /\ pc' # "fatal") =>
        LET row == ws'[Len(ws')]
            old == StatsBefore(row)
            new == customers'[RowKey(row)]
            amount == to_float(row.refund_amount)
        IN  /\ new.refund_count =
                    old.refund_count + (IF StatedRefundRow(row) THEN 1 ELSE 0)
            /\ new.refund_amount =
                    old.refund_amount + (IF amount > 0 THEN amount ELSE 0)
            /\ Len(new.order_details) = Len(old.order_details) + 1
            /\ \A key \in DOMAIN customers' :
                    Len(customers'[key].order_details)
                        = customers'[key].orders + customers'[key].cancel_count]_vars

\* a valid order with a refund marker and no amount, and a cancelled row with
\* a refund of 300, were read for one customer: both count as refunds
C27_Witness ==
    /\ Len(ws) = 3
    /\ \E i, j \in 1..3 :
        /\ ~C9_IsCancellationRow(ws[i]) /\ ws[i].refund_status = "refunded"
        /\ ws[i].refund_amount = Blank
        /\ C9_IsCancellationRow(ws[j]) /\ ws[j].refund_amount = Num(300)
    /\ customers["1380001"].refund_count = 2
    /\ customers["1380001"].refund_amount = 300
    /\ customers["1380001"].orders = 2
    /\ customers["1380001"].cancel_count = 1
    /\ Len(customers["1380001"].order_details) = 3

(***************************************************************************)
(* SpecShape: sheets whose header row lacks a column                       *)
(***************************************************************************)
MaxShapeRows == 2

ShapeRows ==
    {BaseRow,
     [BaseRow EXCEPT !.pay_date = DateCell(900), !.gross = Num(600)],
     [BaseRow EXCEPT !.name = "Zhao", !.phone = "1390002", !.gross = Num(5000)],
     [BaseRow EXCEPT !.status = "cancelled"]}

ShapeColumns ==
    {AllColumns, AllColumns \ {"pay_date"}, AllColumns \ {"gross"}}

InitShape ==
    \E cols \in ShapeColumns :
        InitWith(1000, cols, DefaultConfig, DefaultArgs, <<>>, <<>>)

NextShape ==
    \/ ReadRow(ShapeRows, MaxShapeRows)
    \/ StartBuild
    \/ BuildStep
    \/ SortRows

SpecShape == InitShape /\ [][NextShape]_vars

\* C18: when the sheet has no date column at all, the run ends with a fatal
\* error: no overview row and no action row is produced, and no customer is
\* scored without a timeline.
C18_NoDateColumnIsFatal ==
    "pay_date" \notin columns =>
        /\ overview_rows = <<>>
        /\ action_rows = <<>>
        /\ pc # "done"

(***************************************************************************)
(* utils/data_loader.py: load_customers_fast                               *)
(***************************************************************************)
\* data_loader.to_float: the first numeric token of a string, 0.0 otherwise
to_float_fast(value) ==
    IF value.k \in {"none", "blank"} THEN 0
    ELSE IF value.k = "num" THEN value.toks[1]
    ELSE IF value.toks = <<>> THEN 0
    ELSE value.toks[1]

\* series.fillna('').astype(str)
FillNaStr(s) == IF s = NoText THEN "" ELSE s

\* data_loader.build_customer_key
build_customer_key_fast(name, phone, address) ==
    LET name_str == IF name = NoText THEN "" ELSE Strip(name)
        addr_str == IF address = NoText THEN "" ELSE Strip(address)
    IN  IF phone # NoText /\ phone # "" THEN phone
        ELSE IF name_str # "" /\ addr_str # "" THEN name_str \o "|" \o addr_str
        ELSE IF name_str # "" THEN name_str
        ELSE IF addr_str # "" THEN addr_str
        ELSE "unknown"

\* one row of work_df after the cleaning and the three marker columns
WorkRow(row) ==
    LET gross == to_float_fast(try_get(row, "gross"))
        net_raw == to_float_fast(try_get(row, "net"))
        refund_amount == to_float_fast(try_get(row, "refund_amount"))
        refund_type_str == FillNaStr(try_get(row, "refund_type"))
        is_cancelled == \/ HasCancel(FillNaStr(try_get(row, "status")))
                        \/ HasCancel(refund_type_str)
        is_refund == \/ refund_amount > 0
                     \/ HasRefund(FillNaStr(try_get(row, "refund_status")))
                     \/ HasRefund(refund_type_str)
    IN  [customer_key |-> build_customer_key_fast(
                              try_get(row, "name"),
                              deduplicate_phone(try_get(row, "phone")),
                              try_get(row, "address")),
         gross |-> gross,
         net |-> IF net_raw = 0 THEN gross ELSE net_raw,
         refund_amount |-> refund_amount,
         is_cancelled |-> is_cancelled,
         is_refund |-> is_refund,
         is_valid |-> ~is_cancelled /\ gross > 0]

ColumnSum(group, field) == SumSeq([i \in 1..Len(group) |-> group[i][field]])

IsValidOrder(r) == r.is_valid
IsRefundOrder(r) == r.is_refund /\ ~r.is_cancelled
IsCancelledOrder(r) == r.is_cancelled

\* the aggregates of one group of work_df.groupby('customer_key')
FastCustomer(group) ==
    LET valid_orders == SelectSeq(group, IsValidOrder)
        refund_orders == SelectSeq(group, IsRefundOrder)
        cancelled_orders == SelectSeq(group, IsCancelledOrder)
        total_for_rate == Len(valid_orders) + Len(refund_orders)
    IN  [order_count |-> Len(valid_orders),
         refund_count |-> Len(refund_orders),
         cancel_count |-> Len(cancelled_orders),
         total_count |-> Len(group),
         gross_total |-> ColumnSum(valid_orders, "gross"),
         net_total |-> ColumnSum(valid_orders, "net"),
         refund_total |-> ColumnSum(refund_orders, "refund_amount"),
         return_rate |-> IF total_for_rate > 0
                         THEN Rate(Len(refund_orders), total_for_rate)
                         ELSE Rate(0, 1)]

load_customers_fast(df) ==
    LET work_df == [i \in 1..Len(df) |-> WorkRow(df[i])]
        keys == {work_df[i].customer_key : i \in 1..Len(work_df)}
    IN  [key \in keys |->
            LET InGroup(r) == r.customer_key = key
            IN  FastCustomer(SelectSeq(work_df, InGroup))]

\* load_customers_fast applied to the rows that load_customers has read
ApplyFastLoader ==
    /\ pc = "load"
    /\ probe' = [fn |-> "load_customers_fast", done |-> TRUE,
                 result |-> load_customers_fast(ws)]
    /\ pc' = "done"
    /\ UNCHANGED <<today, columns, config_model, args, contact_rows, contact_log,
                   contact_info, ws, customers, key_order, idx, overview_rows,
                   action_rows, meta_map, snoozed_total, cooldown_customers, locals,
                   run, first_out>>

(***************************************************************************)
(* SpecLoaders: both loaders over the same rows                            *)
(***************************************************************************)
MaxLoaderRows == 3

LoaderRows ==
    {BaseRow,
     [BaseRow EXCEPT !.refund_status = "refunded"],
     [BaseRow EXCEPT !.status = "cancelled", !.refund_type = "refunded",
                     !.refund_amount = Num(300)],
     [BaseRow EXCEPT !.gross = Num(0)],
     [BaseRow EXCEPT !.name = "Zhao", !.phone = "1390002", !.gross = Num(600),
                     !.net = Num(550), !.refund_amount = Num(50)]}

InitLoaders == InitWith(1000, AllColumns, DefaultConfig, DefaultArgs, <<>>, <<>>)

NextLoaders ==
    \/ ReadRow(LoaderRows, MaxLoaderRows)
    \/ ApplyFastLoader

SpecLoaders == InitLoaders /\ [][NextLoaders]_vars

SameRateValue(a, b) == a.n * b.d = b.n * a.d

\* C19: over the same rows load_customers_fast and load_customers have the
\* same customer keys and agree, key by key, on the valid-order count, the
\* cancel count, the refund count and amount, the gross and net totals and
\* the return rate.
C19_LoadersAgree ==
    probe.fn = "load_customers_fast" =>
        /\ DOMAIN probe.result = DOMAIN customers
        /\ \A key \in DOMAIN customers :
            LET fast == probe.result[key]
                stats == customers[key]
            IN  /\ fast.order_count = stats.orders
                /\ fast.cancel_count = stats.cancel_count
                /\ fast.refund_count = stats.refund_count
                /\ fast.refund_total = stats.refund_amount
                /\ fast.gross_total = stats.gross_total
                /\ fast.net_total = stats.net_total
                /\ ReturnRate(stats).def =>
                        SameRateValue(fast.return_rate, ReturnRate(stats))

(***************************************************************************)
(* SpecCycle: customers with repeated, close and undated order dates       *)
(***************************************************************************)
MaxCycleRows == 3

CycleRows ==
    {[BaseRow EXCEPT !.pay_date = DateCell(900)],
     [BaseRow EXCEPT !.pay_date = DateCell(910)],
     BaseRow,
     [BaseRow EXCEPT !.pay_date = JunkDate],
     [BaseRow EXCEPT !.name = "Zhao", !.phone = "1390002", !.pay_date = DateCell(940)]}

InitCycle == InitWith(1000, AllColumns, DefaultConfig, DefaultArgs, <<>>, <<>>)

NextCycle ==
    \/ ReadRow(CycleRows, MaxCycleRows)
    \/ StartBuild
    \/ BuildStep
    \/ SortRows

SpecCycle == InitCycle /\ [][NextCycle]_vars

\* the distinct order dates of the customer scored last, and what follows
\* from them: the mean gap between consecutive ones is (latest - earliest)
\* over the number of gaps
ScoredDates ==
    LET history == customers[locals.key].order_history
    IN  {history[i][1] : i \in 1..Len(history)}

ScoredGaps == Cardinality(ScoredDates) - 1

ScoredSpan ==
    LET latest == CHOOSE d \in ScoredDates : \A e \in ScoredDates : e <= d
        earliest == CHOOSE d \in ScoredDates : \A e \in ScoredDates : d <= e
    IN  latest - earliest

SpanPerOrder ==
    IF ScoredSpan <= 0 THEN Rate(1, 1) ELSE Rate(ScoredSpan, locals.orders - 1)

CycleScored == locals # NoLocals /\ locals.orders >= 2 /\ ScoredDates # {}

\* C20 as stated: for a scored customer with two or more orders the personal
\* cycle is the mean gap between consecutive distinct order dates when two or
\* more gaps are observable and span / (orders - 1), floored to 1, when fewer
\* are; it is never below 1.
C20_CycleIsMeanGapOfTwoGaps ==
    CycleScored =>
        /\ locals.cycle.def
        /\ locals.cycle.n >= locals.cycle.d
        /\ IF ScoredGaps >= 2
           THEN SameRateValue(locals.cycle, Rate(ScoredSpan, ScoredGaps))
           ELSE SameRateValue(locals.cycle, SpanPerOrder)

\* C20 (amended): the personal cycle of a scored customer with two or more
\* orders is the mean gap between consecutive distinct order dates as soon as
\* there are two distinct dates (one gap), and span / (orders - 1) floored to
\* 1, that is 1 day, when all dated orders share one date; it is never below
\* 1, and it is undefined with fewer than two orders or without a dated order.
C20_CycleIsMeanGap ==
    /\ CycleScored =>
        /\ locals.cycle.def
        /\ locals.cycle.n >= locals.cycle.d
        /\ IF ScoredGaps >= 1
           THEN SameRateValue(locals.cycle, Rate(ScoredSpan, ScoredGaps))
           ELSE SameRateValue(locals.cycle, SpanPerOrder) /\ locals.cycle = Rate(1, 1)
    /\ (locals # NoLocals /\ ~CycleScored) => ~locals.cycle.def

\* three orders on two distinct dates ten days apart: one gap, cycle 10
C20_Witness ==
    /\ locals # NoLocals
    /\ locals.orders = 3
    /\ ScoredDates = {900, 910}
    /\ locals.cycle = Rate(10, 1)

(***************************************************************************)
(* SpecUplift: estimate_uplift applied to drawn arguments                  *)
(***************************************************************************)
MaxUpliftOrders == 8
MaxUpliftRefunds == 2
MaxUpliftDays == 400

UpliftDays == {NoDays, 0, 30, 31, 60, 90, 91, 135, 180, 181, MaxUpliftDays}

\* the default uplift bounds, and a ceiling below the 1.0 of regular customers
UpliftConfigs ==
    {DefaultConfig,
     [DefaultConfig EXCEPT !.defaults.uplift_ceiling_m = 900]}

\* the return rate and the average order value are those of a customer with
\* the drawn orders, refunds and net total per order
InitUplift ==
    \E days_since \in UpliftDays, threshold \in {0, 90},
       orders \in 1..MaxUpliftOrders, refunds \in 0..MaxUpliftRefunds,
       value \in {300, 400, 401, 500, 501},
       extra_ceiling_m \in {5000, 800}, cfg \in UpliftConfigs :
        InitProbe(cfg,
                  [fn |-> "uplift", done |-> FALSE,
                   days_since |-> days_since, threshold |-> threshold,
                   extra_ceiling_m |-> extra_ceiling_m,
                   orders |-> orders,
                   return_rate |-> Rate(Min(refunds, orders), orders),
                   aov |-> [n |-> value * orders, d |-> orders],
                   result |-> 0])

NextUplift == ApplyUplift

SpecUplift == InitUplift /\ [][NextUplift]_vars

UpliftEstimated == probe.fn = "uplift" /\ probe.done

ConfiguredFloor == config_model.defaults.uplift_floor_m

\* uplift_ceiling tightened by the category cap
TightenedCeiling == Min(config_model.defaults.uplift_ceiling_m, probe.extra_ceiling_m)

\* the floor of a customer with three or more orders is at least 1.0
RegularFloor ==
    IF probe.orders >= 3 THEN Max(ConfiguredFloor, 1000) ELSE ConfiguredFloor

\* C22 as stated: whatever the arguments, missing days_since and threshold
\* <= 0 included, the value of estimate_uplift lies between uplift_floor and
\* uplift_ceiling, the ceiling tightened by the category cap.
C22_UpliftWithinConfiguredBounds ==
    UpliftEstimated =>
        /\ probe.result >= ConfiguredFloor
        /\ probe.result <= TightenedCeiling

\* C22 (amended): the value lies between the effective floor, which is
\* max(uplift_floor, 1.0) for a customer with three or more orders and
\* uplift_floor otherwise, and the tightened ceiling raised to that floor
\* when it is below it; it is within the configured bounds whenever the
\* effective floor does not exceed the tightened ceiling.
C22_UpliftWithinEffectiveBounds ==
    UpliftEstimated =>
        /\ probe.result >= ConfiguredFloor
        /\ probe.result >= RegularFloor
        /\ probe.result <= Max(RegularFloor, TightenedCeiling)
        /\ RegularFloor <= TightenedCeiling => probe.result <= TightenedCeiling

\* a customer idle for 400 days against a threshold of 90: the raw value
\* (0.5 + 3.44) x 0.5 = 1.97 is cut to the category cap 0.8
C22_Witness ==
    /\ UpliftEstimated
    /\ probe.days_since = MaxUpliftDays /\ probe.threshold = 90
    /\ probe.orders = 1
    /\ probe.extra_ceiling_m = 800
    /\ probe.result = 800

\* the VIP rule as the sentence gives it: any of the three conditions
StatedVip ==
    LET unknown == ~probe.return_rate.def
        below(c) == probe.return_rate.def /\ RateLt(probe.return_rate, c)
        value_above(v) == probe.aov.n > v * probe.aov.d
    IN  \/ probe.orders >= 7 /\ (below(20) \/ unknown)
        \/ probe.orders >= 5 /\ below(10) /\ value_above(400)
        \/ probe.orders >= 3 /\ value_above(500) /\ (below(15) \/ unknown)

\* the multipliers of the sentence, in thousandths
StatedMultiplier ==
    LET d == probe.days_since
    IN  IF StatedVip
        THEN IF d <= 30 THEN 900 ELSE IF d <= 90 THEN 1100
             ELSE IF d <= 180 THEN 950 ELSE 800
        ELSE IF d <= 30 THEN 700
             ELSE IF d <= 90 THEN 1300 + ((d - 30) * 200) \div 60
             ELSE IF d <= 180 THEN 1500 - ((d - 90) * 700) \div 90
             ELSE 500

\* base + max(0, days_since / threshold - 1), in thousandths
BaselineUplift ==
    config_model.defaults.uplift_base_m
        + Max(0, (probe.days_since * 1000) \div probe.threshold - 1000)

MaxPremiumRows == 3

PremiumRows ==
    {[BaseRow EXCEPT !.pay_date = DateCell(400)],
     [BaseRow EXCEPT !.pay_date = DateCell(430)],
     [BaseRow EXCEPT !.pay_date = DateCell(500)],
     [BaseRow EXCEPT !.pay_date = DateCell(490)],
     [BaseRow EXCEPT !.pay_date = DateCell(500), !.refund_status = "refunded"]}

InitPremium == InitWith(1000, AllColumns, DefaultConfig, DefaultArgs, <<>>, <<>>)

NextPremium ==
    \/ ReadRow(PremiumRows, MaxPremiumRows)
    \/ StartBuild
    \/ BuildStep
    \/ SortRows

SpecPremium == InitPremium /\ [][NextPremium]_vars

\* the premium-eligibility rule for the customer scored last
PremiumEligible ==
    /\ locals # NoLocals
    /\ LET stats == customers[locals.key]
           d == config_model.defaults
       IN  /\ stats.orders >= d.uplift_premium_min_orders
           /\ locals.return_rate.def
           /\ RateLt(locals.return_rate, d.uplift_premium_max_return_c)
           /\ stats.first_order # NoDate /\ stats.last_order # NoDate
           /\ stats.last_order - stats.first_order >= d.uplift_premium_min_days_span

\* the uplift of the customer scored last before any clamp, in thousandths
UnclampedUplift ==
    LET ratio_m == (locals.days * 1000) \div Max(locals.threshold_days, 1)
        uplift == config_model.defaults.uplift_base_m + Max(0, ratio_m - 1000)
        factor == RecencyFactor(IsVip(locals.orders, locals.return_rate, locals.aov),
                                locals.days)
    IN  (uplift * factor) \div 1000

\* C23: for a premium-eligible customer the ceiling is the premium ceiling
\* (tightened by the category cap), so the estimated uplift is the unclamped
\* value up to uplift_ceiling_premium, above uplift_ceiling when the
\* unclamped value is.
C23_PremiumCeilingLoosened ==
    PremiumEligible =>
        LET d == config_model.defaults
            floor_m == Max(d.uplift_floor_m, 1000)
            premium_m == Min(d.uplift_ceiling_premium_m, d.max_estimated_uplift_m)
        IN  locals.estimated_uplift = Max(floor_m, Min(premium_m, UnclampedUplift))

(***************************************************************************)
(* SpecPenalty: the exchange penalty over order and exchange counts        *)
(***************************************************************************)
MaxPenaltyOrders == 8
MaxPenaltyExchanges == 3

\* a scored customer has at least one valid order; exchange lines are counted
\* over all detail lines, so their number is not bounded by the order count
InitPenalty ==
    \E orders \in 1..MaxPenaltyOrders, more_orders \in 1..MaxPenaltyOrders,
       exchange_count \in 0..MaxPenaltyExchanges :
        InitProbe(DefaultConfig,
                  [fn |-> "exchange_penalty", done |-> FALSE,
                   orders |-> orders, more_orders |-> more_orders,
                   exchange_count |-> exchange_count,
                   result |-> 0, result_more |-> 0])

NextPenalty == ApplyExchangePenalty

SpecPenalty == InitPenalty /\ [][NextPenalty]_vars

PenaltyComputed == probe.fn = "exchange_penalty" /\ probe.done

\* fewer remaining orders never give a milder penalty
PenaltyMonotone ==
    probe.orders <= probe.more_orders => probe.result <= probe.result_more

\* C25 as stated: with at least one exchange line the penalty is between -200
\* and -50 and monotone in the orders remaining without the exchange lines;
\* without an exchange line it is 0.
C25_PenaltyBetween200And50 ==
    PenaltyComputed =>
        /\ probe.exchange_count > 0 =>
                /\ probe.result >= 0 - 200 /\ probe.result <= 0 - 50
                /\ PenaltyMonotone
        /\ probe.exchange_count = 0 => probe.result = 0

\* C25 (amended): with at least one exchange line the penalty is -200 for
\* fewer than 2 remaining orders, -100 for 2, -50 for 3 or 4 and 0 for 5 or
\* more, hence monotone in the remaining orders; without an exchange line it
\* is 0.
C25_PenaltyByRemainingOrders ==
    PenaltyComputed =>
        LET remaining == probe.orders - probe.exchange_count
        IN  /\ probe.exchange_count > 0 =>
                    /\ remaining < 2 => probe.result = 0 - 200
                    /\ remaining = 2 => probe.result = 0 - 100
                    /\ remaining \in {3, 4} => probe.result = 0 - 50
                    /\ remaining >= 5 => probe.result = 0
                    /\ PenaltyMonotone
            /\ probe.exchange_count = 0 => probe.result = 0

\* one exchange line: 3 orders leave 2 (-100), 6 orders leave 5 (no penalty)
C25_Witness ==
    /\ PenaltyComputed
    /\ probe.exchange_count = 1
    /\ probe.orders = 3 /\ probe.result = 0 - 100
    /\ probe.more_orders = 6 /\ probe.result_more = 0

(***************************************************************************)
(* SpecClv: the CLV-tier boost over labels and order counts                *)
(***************************************************************************)
MaxClvOrders == 20

InitClv ==
    \E potential_label \in {"star", "potential", "ordinary"},
       orders \in 1..MaxClvOrders :
        InitProbe(DefaultConfig,
                  [fn |-> "clv_boost", done |-> FALSE,
                   potential_label |-> potential_label, orders |-> orders,
                   result |-> 0])

NextClv == ApplyClvBoost

SpecClv == InitClv /\ [][NextClv]_vars

ClvBoostComputed == probe.fn = "clv_boost" /\ probe.done

\* C26 as stated: the boost is at most 40; with 10 or more orders it is 40 and
\* with the star label it is 30, whatever the other of the two is.
C26_TenOrdersGetForty ==
    ClvBoostComputed =>
        /\ probe.result <= 40
        /\ probe.orders >= 10 => probe.result = 40
        /\ probe.potential_label = "star" => probe.result = 30

\* C26 (amended): the boost is at most 40; the label is looked at first: 30
\* for the star label and 15 for the potential label, whatever the order
\* count; only a customer with neither label gets the order-count tiers, 40
\* from 10 orders on, then 30, 20, 10, 5 and 0.
C26_LabelBeforeOrderTiers ==
    ClvBoostComputed =>
        /\ probe.result <= 40
        /\ probe.potential_label = "star" => probe.result = 30
        /\ probe.potential_label = "potential" => probe.result = 15
        /\ probe.potential_label = "ordinary" =>
                /\ probe.orders >= 10 => probe.result = 40
                /\ probe.orders \in 7..9 => probe.result = 30
                /\ probe.orders \in 5..6 => probe.result = 20
                /\ probe.orders = 4 => probe.result = 10
                /\ probe.orders = 3 => probe.result = 5
                /\ probe.orders < 3 => probe.result = 0

\* a customer with 10 orders and the potential label gets 15, not 40
C26_Witness ==
    /\ ClvBoostComputed
    /\ probe.orders = 10 /\ probe.potential_label = "potential"
    /\ probe.result = 15

(***************************************************************************)
(* SpecPermute: the same rows ingested in two orders                       *)
(***************************************************************************)
MaxPermuteRows == 3

PermuteRows ==
    {[BaseRow EXCEPT !.pay_date = DateCell(900)],
     [BaseRow EXCEPT !.gross = Num(600), !.cost = Num(200), !.refund_amount = Num(50)],
     [BaseRow EXCEPT !.pay_date = JunkDate, !.refund_status = "refunded"],
     [BaseRow EXCEPT !.status = "cancelled", !.refund_type = "refunded",
                     !.refund_amount = Num(300)],
     [BaseRow EXCEPT !.name = "Zhao", !.phone = "1390002", !.pay_date = DateCell(940)]}

InitPermute == InitWith(1000, AllColumns, DefaultConfig, DefaultArgs, <<>>, <<>>)

NextPermute ==
    \/ ReadRow(PermuteRows, MaxPermuteRows)
    \/ LoadPermuted

SpecPermute == InitPermute /\ [][NextPermute]_vars

\* how often each entry occurs in an order history
HistoryBag(history) ==
    [e \in SeqToSet(history) |-> Cardinality({i \in 1..Len(history) : history[i] = e})]

NumericAggregates(stats) ==
    <<stats.orders, stats.cancel_count, stats.refund_count, stats.refund_amount,
      stats.gross_total, stats.net_total, stats.cost_total, stats.profit_total,
      stats.first_order, stats.last_order, HistoryBag(stats.order_history)>>

\* the dates of the rows of a customer that are valid orders with a date
DatedValidOrders(key) ==
    {parse_excel_date(ws[i].pay_date) :
        i \in {j \in 1..Len(ws) :
                /\ RowKey(ws[j]) = key
                /\ ~C9_IsCancellationRow(ws[j])
                /\ parse_excel_date(ws[j].pay_date) # NoDate}}

MaxWindowEntries == 3

\* order dates on both sides of each cutoff of today = 1000, and one in the
\* future; a net amount may be negative
WindowDates == {1005, 970, 969, 910, 909, 820, 819, 635, 634}

WindowEntries == {<<d, net>> : d \in WindowDates, net \in {100, 0 - 50}}

WindowHistories ==
    UNION {[1..n -> WindowEntries] : n \in 0..MaxWindowEntries}

InitWindows ==
    \E entries \in WindowHistories :
        InitProbe(DefaultConfig,
                  [fn |-> "windows", done |-> FALSE, entries |-> entries,
                   result |-> compute_time_windows(<<>>, 1000)])

NextWindows == ApplyTimeWindows

SpecWindows == InitWindows /\ [][NextWindows]_vars

====
